---- MODULE Spec2Model ----
(***************************************************************************)
(* The Verifiable Map server (TrillianMapServer): InitMap, SetLeaves and   *)
(* the read operations over one map, with the storage gateway, the hasher  *)
(* and the sparse Merkle writer/reader they call.                          *)
(*                                                                         *)
(* Byte strings (indices, leaf values, metadata, hashes) are sequences of  *)
(* integers.  Hashes are collision-free terms: the sequence that spells    *)
(* out what was hashed.  The signature and the timestamp of a signed root  *)
(* are left out: a signed root is its MapRootV1 {revision, root hash,      *)
(* metadata}.                                                              *)
(***************************************************************************)
EXTENDS Integers, Sequences, FiniteSets, TLC


\* ------------------------------------------------------------------ bounds
\* hasher.Size(): bytes per index (32 for SHA-256; scaled down).
HashSize == 1
\* Highest revision a SetLeaves transaction may write.
MaxRev == 2
\* Saturation point of the per-revision commit counters ("this many or more").
Many == 2
\* Longest index list handed to validateIndices on its own.
MaxIndices == 3
\* Capacity of the channel of calcAllSiblingsParallel (2048; scaled down so
\* that producers block on a full channel).
ChanCap == 2
\* Most attempts of one operation that retryOp is followed through.
MaxAttempts == 3
\* cfg.NumCheckers and cfg.Operations of the hammer.
NumCheckers == 2
Operations == 2

\* ------------------------------------------------------- program constants
mostRecentRevision == -1
BitsPerByte == 8
MapID == 7

BitLen == BitsPerByte * HashSize

Calls == {1, 2}

\* ------------------------------------------------------------- byte strings
RECURSIVE Zeroes(_)
Zeroes(n) == IF n = 0 THEN <<>> ELSE Append(Zeroes(n - 1), 0)

\* Two well-formed indices, in different halves of the tree, and two malformed.
IdxX == Zeroes(HashSize)
IdxY == <<128>> \o Zeroes(HashSize - 1)
IdxShort == Zeroes(HashSize - 1)
IdxLong == Zeroes(HashSize + 1)

ValA == <<97>>
ValB == <<98>>
ValEmpty == <<>>
Meta == <<109>>

\* ------------------------------------------------------------------ errors
\* An error is its gRPC kind; "Unknown" is what a plain fmt.Errorf carries.
\* pos is the zero-based position an index validation failure reports.
NoErr == [kind |-> "OK", pos |-> -1, why |-> ""]
Err(kind) == [kind |-> kind, pos |-> -1, why |-> ""]
ErrAt(kind, pos, why) == [kind |-> kind, pos |-> pos, why |-> why]

\* The kind a failing collaborator (storage, signer, admin store) reports.
FaultKind == "Unavailable"

\* ------------------------------------------------------------------ hasher
HashLeaf(treeID, index, value) == <<1, treeID, Len(index)>> \o index \o value
HashEmpty(treeID, index, height) == <<0, treeID, height>>
HashChildren(l, r) == <<2>> \o l \o r

\* ------------------------------------------------------- validateIndices
RECURSIVE validateFrom(_, _, _, _)
validateFrom(indexSize, indices, i, seenIndices) ==
    IF i >= Len(indices) THEN NoErr
    ELSE LET index == indices[i + 1] IN
         IF Len(index) # indexSize
         THEN ErrAt("InvalidArgument", i, "length")
         ELSE IF index \in seenIndices
         THEN ErrAt("InvalidArgument", i, "duplicate")
         ELSE validateFrom(indexSize, indices, i + 1, seenIndices \cup {index})

\* Faulty variant: the duplicate check is left out.
validateLengths(indexSize, indices) ==
    IF \E i \in 1..Len(indices) : Len(indices[i]) # indexSize
    THEN ErrAt("InvalidArgument",
               (CHOOSE i \in 1..Len(indices) :
                    /\ Len(indices[i]) # indexSize
                    /\ \A j \in 1..(i - 1) : Len(indices[j]) = indexSize) - 1,
               "length")
    ELSE NoErr

validateIndices(indexSize, indices) == validateFrom(indexSize, indices, 0, {})

\* ------------------------------------------------------------ tree node ids
\* A node id is the bit prefix leading to the node; the root is <<>>.
Bit(index, j) ==
    (index[((j - 1) \div BitsPerByte) + 1]
        \div (2 ^ (BitsPerByte - 1 - ((j - 1) % BitsPerByte)))) % 2

RECURSIVE BitsUpTo(_, _)
BitsUpTo(index, n) ==
    IF n = 0 THEN <<>> ELSE Append(BitsUpTo(index, n - 1), Bit(index, n))

NewNodeIDFromHash(index) == BitsUpTo(index, BitLen)

IsPrefix(p, q) == Len(p) <= Len(q) /\ SubSeq(q, 1, Len(p)) = p

Flip(id) == [id EXCEPT ![Len(id)] = 1 - id[Len(id)]]

\* The sibling of every node on the path from the leaf up to the root's child.
Siblings(nid) == {Flip(SubSeq(nid, 1, d)) : d \in 1..Len(nid)}

\* ----------------------------------------------------------------- records
NoRoot == [hash |-> <<>>, meta |-> <<>>, rev |-> -1]
NoLeaf == [index |-> <<>>, value |-> <<>>, hash |-> <<>>, nil |-> TRUE]
MapLeaf(index, value, hash) ==
    [index |-> index, value |-> value, hash |-> hash, nil |-> FALSE]

NoReq == [indices |-> <<>>, meta |-> <<>>, rev |-> 0, leaves |-> <<>>]
NoRsp == [leaves |-> <<>>, incl |-> <<>>, err |-> NoErr, root |-> NoRoot]
NoTx ==
    [leaves |-> {}, root |-> NoRoot, nodes |-> {}, errCh |-> <<>>,
     got |-> {}, joined |-> {}, pending |-> {}, preload |-> {},
     proofs |-> {}, readRev |-> -1, rootHash |-> <<>>, steps |-> <<>>,
     sub |-> {}, writeRev |-> -1, life |-> "none"]
NoFail == [fault |-> FALSE, step |-> ""]

\* ------------------------------------------------------- storage gateway
Max(S) == CHOOSE x \in S : \A y \in S : y <= x

LatestRevision(rs) == IF rs = {} THEN -1 ELSE Max({r.rev : r \in rs})

HasRoot(rs, rev) == \E r \in rs : r.rev = rev

RootAt(rs, rev) == CHOOSE r \in rs : r.rev = rev

\* tx.Get: the leaf of each index as of rev, absent indices omitted.
LeafVersions(ls, rev, index) == {l \in ls : l.index = index /\ l.rev <= rev}

LeafAsOf(ls, rev, index) ==
    LET vs == LeafVersions(ls, rev, index)
        l == CHOOSE x \in vs : \A y \in vs : y.rev <= x.rev
    IN MapLeaf(l.index, l.value, l.hash)

RECURSIVE Get(_, _, _)
Get(ls, rev, indices) ==
    IF indices = <<>> THEN <<>>
    ELSE LET rest == Get(ls, rev, Tail(indices)) IN
         IF LeafVersions(ls, rev, Head(indices)) = {} THEN rest
         ELSE <<LeafAsOf(ls, rev, Head(indices))>> \o rest

\* The stored hash of node id as of rev, or the empty-subtree hash of its depth.
NodeVersions(ns, rev, id) == {n \in ns : n.id = id /\ n.rev <= rev}

StoredOrEmpty(ns, rev, id) ==
    LET vs == NodeVersions(ns, rev, id) IN
    IF vs = {} THEN HashEmpty(MapID, Zeroes(HashSize), BitLen - Len(id))
    ELSE (CHOOSE x \in vs : \A y \in vs : y.rev <= x.rev).hash

\* set_merkle_nodes: a write replaces the node stored at the same (rev, id).
Upsert(ns, new) ==
    {n \in ns : ~ \E m \in new : m.rev = n.rev /\ m.id = n.id} \cup new

\* ------------------------------------------------- sparse Merkle tree writer
\* Depth at which the writer splits the tree into work units: one unit per
\* touched subtree rooted at this depth, and a top unit above them.
TopDepth == 1

\* known: the new [id, hash] values at depth bottom; everything else is read
\* from the nodes stored before revision rev.
RECURSIVE SubtreeHash(_, _, _, _, _)
SubtreeHash(id, bottom, known, ns, rev) ==
    IF ~ \E k \in known : IsPrefix(id, k.id) THEN StoredOrEmpty(ns, rev - 1, id)
    ELSE IF Len(id) = bottom THEN (CHOOSE k \in known : k.id = id).hash
    ELSE HashChildren(SubtreeHash(id \o <<0>>, bottom, known, ns, rev),
                      SubtreeHash(id \o <<1>>, bottom, known, ns, rev))

\* The nodes a unit rooted at id writes: every node between id and the known
\* values below it, at revision rev.
UnitNodes(id, lo, hi, bottom, known, ns, rev) ==
    {[id |-> q, hash |-> SubtreeHash(q, bottom, known, ns, rev), rev |-> rev] :
        q \in {SubSeq(k.id, 1, d) : k \in {x \in known : IsPrefix(id, x.id)},
                                    d \in lo..hi}}

\* Faulty variant: the leaf hash leaves the value out.
HKVOfIndex(reqLeaves) ==
    {[id |-> NewNodeIDFromHash(reqLeaves[i].index),
      hash |-> HashLeaf(MapID, reqLeaves[i].index, <<>>)] :
        i \in 1..Len(reqLeaves)}

\* HashKeyValue list of a request: (index, leaf hash) pairs.
HKV(reqLeaves) ==
    {[id |-> NewNodeIDFromHash(reqLeaves[i].index),
      hash |-> HashLeaf(MapID, reqLeaves[i].index, reqLeaves[i].value)] :
        i \in 1..Len(reqLeaves)}

\* The lower work units of a batch: the touched subtrees at depth TopDepth.
\* The top unit, which combines their roots, runs once they are done.
Units(hkv) == {SubSeq(k.id, 1, TopDepth) : k \in hkv}

\* ------------------------------------------------------------------- state
VARIABLES
    opts,       \* TrillianMapServerOptions, fixed at construction
    roots,      \* storage: committed signed map roots
    leaves,     \* storage: committed leaves [rev, index, value, hash]
    nodes,      \* storage: committed Merkle nodes [rev, id, hash]
    commits,    \* history: per revision, committed read-write transactions
                \* that wrote at it (saturating at Many)
    rootCommits,\* history: per revision, committed transactions that stored
                \* a signed root for it (saturating at Many)
    written,    \* history: the leaves of every committed SetLeaves request
    pc,         \* per call: where the handler is
    op,         \* per call: the RPC
    req,        \* per call: the request
    tx,         \* per call: its transaction or snapshot
    rsp,        \* per call: the response (with the error returned)
    fail,       \* history: per call, the step that failed and whether a
                \* collaborator fault caused it
    vIn,        \* validateIndices on its own: the index list
    vOut,       \* validateIndices on its own: the result
    hkvIn,      \* calcAllSiblingsParallel: the hashed keys of hkv
    sent,       \* calcAllSiblingsParallel: per producer, siblings sent
    sibCh,      \* calcAllSiblingsParallel: the channel c
    chClosed,   \* calcAllSiblingsParallel: close(c) happened
    nidSet,     \* calcAllSiblingsParallel: keys seen by the consumer
    nids,       \* calcAllSiblingsParallel: the list being returned
    sibPc,      \* calcAllSiblingsParallel: "idle", "run" or "returned"
    retryErrors,\* retryOp: w.retryErrors
    firstErr,   \* retryOp: the local firstErr
    late,       \* retryOp: time.Now() is after the deadline
    ctxErr,     \* retryOp: ctx.Err()
    attempts,   \* history: the outcome of every call of fn, in order
    retryPc,    \* retryOneOp: "idle", "start", "loop" or "returned"
    retryRet,   \* retryOneOp: the error returned
    errs,       \* HitMap: the channel errs
    doneClosed, \* HitMap: close(done) happened
    ctxDone,    \* HitMap: ctx.Done() is closed
    gPc,        \* HitMap: where the worker (0) and each checker (1..) is
    gErr,       \* HitMap: the error each goroutine is about to send
    count,      \* HitMap: performOperations' count
    hitPc,      \* HitMap: "idle", "select", "wait" or "returned"
    hitErr,     \* HitMap: the named result firstErr
    took,       \* history: the case the select of HitMap took
    arrivals    \* history: every value sent on errs, with its sender

vars == <<opts, roots, leaves, nodes, commits, rootCommits, written,
          pc, op, req, tx, rsp, fail, vIn, vOut,
          hkvIn, sent, sibCh, chClosed, nidSet, nids, sibPc,
          retryErrors, firstErr, late, ctxErr, attempts, retryPc, retryRet,
          errs, doneClosed, ctxDone, gPc, gErr, count, hitPc, hitErr, took,
          arrivals>>

store == <<roots, leaves, nodes, commits, rootCommits, written>>
vvars == <<vIn, vOut>>
pvars == <<hkvIn, sent, sibCh, chClosed, nidSet, nids, sibPc>>
rvars == <<retryErrors, firstErr, late, ctxErr, attempts, retryPc, retryRet>>
hvars == <<errs, doneClosed, ctxDone, gPc, gErr, count, hitPc, hitErr, took,
           arrivals>>
\* What the handlers of the server leave alone.
aside == <<vvars, pvars, rvars, hvars>>

Revs == 0..MaxRev

Bump(f, rev) == [f EXCEPT ![rev] = IF @ >= Many THEN Many ELSE @ + 1]

ServerInit ==
    /\ opts \in [preload : BOOLEAN, single : BOOLEAN]
    /\ roots = {}
    /\ leaves = {}
    /\ nodes = {}
    /\ commits = [r \in Revs |-> 0]
    /\ rootCommits = [r \in Revs |-> 0]
    /\ written = {}
    /\ pc = [c \in Calls |-> "idle"]
    /\ op = [c \in Calls |-> ""]
    /\ req = [c \in Calls |-> NoReq]
    /\ tx = [c \in Calls |-> NoTx]
    /\ rsp = [c \in Calls |-> NoRsp]
    /\ fail = [c \in Calls |-> NoFail]

\* No calcAllSiblingsParallel is running on its own.
SiblingsIdle ==
    /\ hkvIn = <<>>
    /\ sent = <<>>
    /\ sibCh = <<>>
    /\ chClosed = FALSE
    /\ nidSet = {}
    /\ nids = <<>>
    /\ sibPc = "idle"

\* The options of the server the hammer runs against.
HammerOpts == [preload |-> FALSE, single |-> FALSE]

\* The hammer: no retryOneOp and no HitMap is running.
Goroutines == 0..NumCheckers

\* The nil error on errs; the error of goroutine g is g itself.
Nil == -1

RetryIdle ==
    /\ retryErrors = FALSE
    /\ firstErr = "nil"
    /\ late = FALSE
    /\ ctxErr = "nil"
    /\ attempts = <<>>
    /\ retryPc = "idle"
    /\ retryRet = "nil"

HitIdle ==
    /\ errs = <<>>
    /\ doneClosed = FALSE
    /\ ctxDone = FALSE
    /\ gPc = [g \in Goroutines |-> "idle"]
    /\ gErr = [g \in Goroutines |-> Nil]
    /\ count = 0
    /\ hitPc = "idle"
    /\ hitErr = Nil
    /\ took = "none"
    /\ arrivals = <<>>

Init ==
    /\ ServerInit
    /\ vIn = <<>>
    /\ vOut = NoErr
    /\ SiblingsIdle
    /\ RetryIdle
    /\ HitIdle

\* ------------------------------------------------------------ call plumbing
\* A call starts in the lowest idle slot (the slots are interchangeable).
CanStart(c) ==
    /\ pc[c] = "idle"
    /\ \A d \in Calls : d < c => pc[d] # "idle"

Start(c, name, request) ==
    /\ op' = [op EXCEPT ![c] = name]
    /\ req' = [req EXCEPT ![c] = request]

\* The transaction of a finished call: closed, its buffers gone.
Closed(t) ==
    [NoTx EXCEPT !.readRev = t.readRev, !.writeRev = t.writeRev,
                 !.steps = t.steps,
                 !.life = IF t.life = "none" THEN "none" ELSE "closed"]

\* The handler returns err; its transaction (if any) is rolled back or closed.
Return(c, t, err, step, fault) ==
    /\ pc' = [pc EXCEPT ![c] = "done"]
    /\ tx' = [tx EXCEPT ![c] = Closed(t)]
    /\ rsp' = [rsp EXCEPT ![c] = [NoRsp EXCEPT !.err = err]]
    /\ fail' = [fail EXCEPT ![c] = [fault |-> fault, step |-> step]]

\* The handler returns err with no close of its own deferred: the
\* transaction stays as the call that handed it over left it.
Abandon(c, t, err, step, fault) ==
    /\ pc' = [pc EXCEPT ![c] = "done"]
    /\ tx' = [tx EXCEPT ![c] = t]
    /\ rsp' = [rsp EXCEPT ![c] = [NoRsp EXCEPT !.err = err]]
    /\ fail' = [fail EXCEPT ![c] = [fault |-> fault, step |-> step]]

\* The handler moves on to its next step.
Goto(c, t, next) ==
    /\ pc' = [pc EXCEPT ![c] = next]
    /\ tx' = [tx EXCEPT ![c] = t]
    /\ UNCHANGED <<rsp, fail>>

\* The client takes the response; the slot is free again.
Forget(c) ==
    /\ pc[c] = "done"
    /\ pc' = [pc EXCEPT ![c] = "idle"]
    /\ op' = [op EXCEPT ![c] = ""]
    /\ req' = [req EXCEPT ![c] = NoReq]
    /\ tx' = [tx EXCEPT ![c] = NoTx]
    /\ rsp' = [rsp EXCEPT ![c] = NoRsp]
    /\ fail' = [fail EXCEPT ![c] = NoFail]
    /\ UNCHANGED <<opts, store, aside>>

\* ---------------------------------------------------------------- requests
Leaf(index, value) == [index |-> index, value |-> value]

ValidBatches ==
    { << Leaf(IdxX, ValA) >>,
      << Leaf(IdxY, ValB), Leaf(IdxX, ValEmpty) >> }

InvalidBatches ==
    { << Leaf(IdxX, ValA), Leaf(IdxX, ValB) >>,
      << Leaf(IdxY, ValA), Leaf(IdxShort, ValA) >> }

SetLeavesRequests(batches) ==
    {[indices |-> <<>>, meta |-> Meta, rev |-> r, leaves |-> b] :
        b \in batches, r \in 0..MaxRev}

RECURSIVE IndicesOf(_)
IndicesOf(ls) ==
    IF ls = <<>> THEN <<>> ELSE <<Head(ls).index>> \o IndicesOf(Tail(ls))

\* ------------------------------------------------------------ the write path
\* storage: the revision a transaction begun at readRev will materialize.
WriteRevision(t) == t.readRev + 1

\* Faulty variant: the asserted revision is taken for the write revision.
getWriteRevisionAsserted(writeRev, assertRev) ==
    [rev |-> IF assertRev # 0 THEN assertRev ELSE writeRev, err |-> NoErr]

\* Faulty variant: a zero revision is asserted like any other.
getWriteRevisionStrict(writeRev, assertRev) ==
    IF writeRev # assertRev
    THEN [rev |-> 0, err |-> Err("FailedPrecondition")]
    ELSE [rev |-> writeRev, err |-> NoErr]

getWriteRevision(writeRev, assertRev) ==
    IF assertRev # 0 /\ writeRev # assertRev
    THEN [rev |-> 0, err |-> Err("FailedPrecondition")]
    ELSE [rev |-> writeRev, err |-> NoErr]

makeSignedMapRoot(rootHash, revision, meta) ==
    [hash |-> rootHash, meta |-> meta, rev |-> revision]

\* storage: a read-write transaction begun now.
Begin == [NoTx EXCEPT !.readRev = LatestRevision(roots),
                      !.writeRev = LatestRevision(roots) + 1,
                      !.life = "open"]

\* The transaction after a step of the handler ran in it.
Did(t, step) == [t EXCEPT !.steps = Append(@, step)]

\* Faulty variant: no leaf is set.
writeLeavesSkipped(t, reqLeaves) == t

\* writeLeaves: tx.Set of every leaf, its LeafHash attached.
writeLeaves(t, reqLeaves) ==
    [Did(t, "writeLeaves") EXCEPT !.leaves =
        {[index |-> reqLeaves[i].index,
          value |-> reqLeaves[i].value,
          hash |-> HashLeaf(MapID, reqLeaves[i].index, reqLeaves[i].value),
          rev |-> t.writeRev] :
            i \in 1..Len(reqLeaves)}]

\* doPreload: one GetMerkleNodes read of every sibling on the batch's paths.
calcAllSiblings(hkv) == UNION {Siblings(k.id) : k \in hkv}

\* Faulty variant: nothing is preloaded.
doPreloadSkipped(t, hkv) == t

\* tx.ReadRevision, then the GetMerkleNodes read the transaction is asked for.
doPreload(t, hkv) ==
    [Did(t, "preload") EXCEPT
        !.preload = @ \cup {[rev |-> t.readRev, ids |-> calcAllSiblings(hkv)]}]

\* NewSparseMerkleTreeWriter and smtWriter.SetLeaves: the batch is staged.
stageWriter(t, hkv) == [Did(t, "writer") EXCEPT !.pending = Units(hkv)]

\* SetLeaves from its entry to the staged writer: everything that reads the
\* store only through the transaction just begun.
SetLeavesBegin(c, requests) ==
    /\ CanStart(c)
    /\ LatestRevision(roots) < MaxRev
    /\ \E request \in requests :
        /\ Start(c, "SetLeaves", request)
        /\ LET v == validateIndices(HashSize, IndicesOf(request.leaves))
               hkv == HKV(request.leaves)
               t0 == Begin
               w == getWriteRevision(WriteRevision(t0), request.rev)
               t1 == Did([t0 EXCEPT !.writeRev = w.rev], "writeRev")
               t2 == writeLeaves(t1, request.leaves)
               pre == opts.single /\ opts.preload
               t3 == IF pre THEN doPreload(t2, hkv) ELSE t2
               t4 == stageWriter(t3, hkv)
           IN \/ Return(c, NoTx, Err(FaultKind), "getTree", TRUE)
              \/ v # NoErr /\ Return(c, NoTx, v, "validate", FALSE)
              \/ v = NoErr /\ Return(c, NoTx, Err(FaultKind), "begin", TRUE)
              \/ v = NoErr /\ roots = {}
                   /\ Return(c, NoTx, Err("TreeNeedsInit"), "begin", FALSE)
              \/ v = NoErr /\ roots # {}
                   /\ \/ Return(c, t0, Err(FaultKind), "writeRev", TRUE)
                      \/ w.err # NoErr /\ Return(c, t0, w.err, "writeRev", FALSE)
                      \/ w.err = NoErr
                           /\ \/ Return(c, t1, Err(FaultKind), "writeLeaves", TRUE)
                              \/ pre /\ Return(c, t2, Err(FaultKind), "preload", TRUE)
                              \/ Return(c, t3, Err(FaultKind), "writer", TRUE)
                              \/ Goto(c, t4, "sl_calc")
    /\ UNCHANGED <<opts, store, aside>>

\* The transaction runner: a unit's writes go to the outer transaction
\* (singleTXRunner) or are committed at once by a transaction of their own
\* (multiTXRunner).
\* Faulty variant: the single runner opens a transaction of its own too.
RunTXNew(t, new) ==
    /\ nodes' = Upsert(nodes, new)
    /\ commits' = Bump(commits, t.writeRev)
    /\ UNCHANGED <<roots, leaves, rootCommits, written>>

\* Faulty variant: the multi runner runs the unit in the outer transaction.
RunTXOuter(t, new) == UNCHANGED store

RunTX(t, new) ==
    IF opts.single
    THEN /\ UNCHANGED store
    ELSE /\ nodes' = Upsert(nodes, new)
         /\ commits' = Bump(commits, t.writeRev)
         /\ UNCHANGED <<roots, leaves, rootCommits, written>>

Buffered(t, new) == IF opts.single THEN [t EXCEPT !.nodes = Upsert(@, new)] ELSE t

\* tx.StoreSignedMapRoot: the root is written in the transaction.
storeRoot(t, root) == [Did(t, "storeRoot") EXCEPT !.root = root]

\* Faulty variant: the error of makeSignedMapRoot is dropped and the
\* transaction goes on to commit.
signAndStoreUnchecked(c, t) ==
    LET t2 == Did(t, "sign")
        newRoot == makeSignedMapRoot(t.rootHash, t.writeRev, req[c].meta)
    IN \/ /\ pc' = [pc EXCEPT ![c] = "commit"]
          /\ tx' = [tx EXCEPT ![c] = storeRoot(t2, newRoot)]
          /\ fail' = [fail EXCEPT ![c] = [fault |-> TRUE, step |-> "sign"]]
          /\ UNCHANGED rsp
       \/ Return(c, t2, Err(FaultKind), "storeRoot", TRUE)
       \/ Goto(c, storeRoot(t2, newRoot), "commit")

\* updateTree once CalculateRoot returned t.rootHash: makeSignedMapRoot, then
\* tx.StoreSignedMapRoot.
signAndStore(c, t) ==
    LET t2 == Did(t, "sign")
        newRoot == makeSignedMapRoot(t.rootHash, t.writeRev, req[c].meta)
    IN \/ Return(c, t, Err("Unknown"), "sign", TRUE)
       \/ Return(c, t2, Err(FaultKind), "storeRoot", TRUE)
       \/ Goto(c, storeRoot(t2, newRoot), "commit")

\* smtWriter.CalculateRoot, one work unit at a time; after the top unit,
\* makeSignedMapRoot and tx.StoreSignedMapRoot.
CalcUnit(c) ==
    /\ pc[c] = "sl_calc"
    /\ LET t == tx[c]
           hkv == HKV(req[c].leaves)
       IN \/ /\ Return(c, t, Err("Unknown"), "calculateRoot", TRUE)
             /\ UNCHANGED store
          \/ \E u \in t.pending :
               LET new == UnitNodes(u, TopDepth, BitLen, BitLen, hkv, nodes,
                                    t.writeRev)
                   h == SubtreeHash(u, BitLen, hkv, nodes, t.writeRev)
                   t1 == [Buffered(t, new) EXCEPT
                             !.pending = @ \ {u},
                             !.sub = @ \cup {[id |-> u, hash |-> h]}]
               IN RunTX(t, new) /\ Goto(c, t1, "sl_calc")
          \/ /\ t.pending = {}
             /\ LET new == UnitNodes(<<>>, 0, TopDepth - 1, TopDepth, t.sub,
                                     nodes, t.writeRev)
                    h == SubtreeHash(<<>>, TopDepth, t.sub, nodes, t.writeRev)
                    t1 == [Did(Buffered(t, new), "calculateRoot")
                              EXCEPT !.rootHash = h]
                IN RunTX(t, new) /\ signAndStore(c, t1)
    /\ UNCHANGED <<opts, op, req, aside>>

\* What the handler returns once ReadWriteTransaction returned err: the error
\* alone, or the response with the new root.
\* Faulty variant: the error of ReadWriteTransaction is dropped.
ResponseUnchecked(err, newRoot) == [NoRsp EXCEPT !.root = newRoot]

Response(err, newRoot) ==
    IF err # NoErr THEN [NoRsp EXCEPT !.err = err]
    ELSE [NoRsp EXCEPT !.root = newRoot]

\* history: the (index, value) pairs a request wrote at revision rev.
Written(reqLeaves, rev) ==
    {[index |-> reqLeaves[i].index, value |-> reqLeaves[i].value, rev |-> rev] :
        i \in 1..Len(reqLeaves)}

\* storage: a revision that already has a committed root cannot be committed
\* again.
\* Faulty variant: no conflict is detected.
ConflictsNever(t) == FALSE

Conflicts(t) == HasRoot(roots, t.writeRev) \/ HasRoot(roots, t.root.rev)

\* storage: the read-write transaction commits once its body returned nil.
\* Only one transaction can be committed for a given revision.
Commit(c) ==
    /\ pc[c] = "commit"
    /\ LET t == tx[c] IN
          \/ /\ Return(c, t, Err(FaultKind), "commit", TRUE)
             /\ UNCHANGED store
          \/ /\ Conflicts(t)
             /\ pc' = [pc EXCEPT ![c] = "done"]
             /\ tx' = [tx EXCEPT ![c] = Closed(t)]
             /\ rsp' = [rsp EXCEPT ![c] =
                           Response(Err("FailedPrecondition"), t.root)]
             /\ fail' = [fail EXCEPT ![c] = [fault |-> FALSE, step |-> "commit"]]
             /\ UNCHANGED store
          \/ /\ ~ Conflicts(t)
             /\ roots' = roots \cup {t.root}
             /\ leaves' = leaves \cup t.leaves
             /\ nodes' = Upsert(nodes, t.nodes)
             /\ commits' = Bump(commits, t.writeRev)
             /\ rootCommits' = Bump(rootCommits, t.root.rev)
             /\ written' = written \cup Written(req[c].leaves, t.root.rev)
             /\ pc' = [pc EXCEPT ![c] = "done"]
             /\ tx' = [tx EXCEPT ![c] = Closed(t)]
             /\ rsp' = [rsp EXCEPT ![c] = Response(NoErr, t.root)]
             /\ UNCHANGED fail
    /\ UNCHANGED <<opts, op, req, aside>>

\* InitMap up to and including tx.StoreSignedMapRoot.
\* Faulty variant: the hash of an empty leaf, not of the empty tree.
rev0RootOfLeaf ==
    makeSignedMapRoot(HashEmpty(MapID, Zeroes(HashSize), 0), 0, <<>>)

rev0Root ==
    makeSignedMapRoot(HashEmpty(MapID, Zeroes(HashSize), BitLen), 0, <<>>)

\* Faulty variant: the check for an existing root is left out.
hasMapRootNever(rs) == FALSE

\* latestRoot.GetMapRoot() != nil, for the latest root of the roots read.
hasMapRoot(rs) == rs # {}

\* storage: the error of tx.LatestSignedMapRoot on the roots read.
LatestSignedMapRootErr(rs) == IF rs = {} THEN Err("TreeNeedsInit") ELSE NoErr

\* Faulty variant: every error of the read fails InitMap.
latestRootFailsAlways(err) == err # NoErr

\* err != nil && err != storage.ErrTreeNeedsInit
latestRootFails(err) == err # NoErr /\ err # Err("TreeNeedsInit")

InitMapBegin(c) ==
    /\ CanStart(c)
    /\ Start(c, "InitMap", NoReq)
    /\ LET t == Begin
           e == LatestSignedMapRootErr(roots)
       IN \/ Return(c, NoTx, Err("FailedPrecondition"), "getTree", TRUE)
          \/ Return(c, NoTx, Err(FaultKind), "begin", TRUE)
          \/ \E err \in {Err(FaultKind), e} :
                /\ latestRootFails(err)
                /\ Return(c, t, Err("FailedPrecondition"), "latestRoot",
                          err = Err(FaultKind))
          \/ /\ ~ latestRootFails(e)
             /\ hasMapRoot(roots)
             /\ Return(c, t, Err("AlreadyExists"), "latestRoot", FALSE)
          \/ /\ ~ latestRootFails(e)
             /\ ~ hasMapRoot(roots)
             /\ \/ Return(c, t, Err("Unknown"), "sign", TRUE)
                \/ Return(c, Did(t, "sign"), Err(FaultKind), "storeRoot", TRUE)
                \/ Goto(c, storeRoot(Did(t, "sign"), rev0Root), "commit")
    /\ UNCHANGED <<opts, store, aside>>

\* ------------------------------------------------------------- the read path
IndexLists ==
    { <<IdxX>>, <<IdxY>>, <<IdxY, IdxX>>, <<IdxX, IdxX>>, <<IdxShort>> }

ReadRequests(lists) ==
    {[indices |-> l, meta |-> <<>>, rev |-> r, leaves |-> <<>>] :
        l \in lists, r \in -1..MaxRev}

\* storage: a snapshot opened now sees the roots committed so far.
Snapshot == [NoTx EXCEPT !.readRev = LatestRevision(roots), !.life = "open"]

\* closeAndLog: tx.Close.
closeAndLog(t) == Closed(t)

\* storage: SnapshotForTree hands back an open snapshot, and for a tree with
\* no root yet the open snapshot together with ErrTreeNeedsInit.
SnapshotForTree ==
    [err |-> IF roots = {} THEN Err("TreeNeedsInit") ELSE NoErr, tx |-> Snapshot]

\* Faulty variant: the snapshot that came with an error is left open.
snapshotForTreeLeaky == SnapshotForTree

\* snapshotForTree: a snapshot that came with an error is closed at once.
snapshotForTree ==
    LET s == SnapshotForTree IN
    IF s.err # NoErr /\ s.tx # NoTx
    THEN [err |-> s.err, tx |-> closeAndLog(s.tx)]
    ELSE s

Visible(t, rev) == rev <= t.readRev /\ HasRoot(roots, rev)

\* SparseMerkleTreeReader.BatchInclusionProof: per index, the sibling hashes
\* from the leaf's sibling up to the child of the root.
RECURSIVE SiblingsUpTo(_, _, _, _)
SiblingsUpTo(ns, rev, nid, n) ==
    IF n = 0 THEN <<>>
    ELSE Append(SiblingsUpTo(ns, rev, nid, n - 1),
                StoredOrEmpty(ns, rev, Flip(SubSeq(nid, 1, BitLen + 1 - n))))

InclusionProof(ns, rev, index) ==
    SiblingsUpTo(ns, rev, NewNodeIDFromHash(index), BitLen)

BatchInclusionProof(ns, rev, indices) ==
    {[index |-> indices[i], path |-> InclusionProof(ns, rev, indices[i])] :
        i \in 1..Len(indices)}

\* Faulty variant: no empty leaf stands in for an index that was not found.
leavesFound(found, indices) ==
    {[index |-> found[i].index, leaf |-> found[i]] : i \in 1..Len(found)}

\* leavesByIndex: the leaves found, then an empty leaf for every other index.
leavesByIndex(found, indices) ==
    LET byIndex == {[index |-> found[i].index, leaf |-> found[i]] :
                        i \in 1..Len(found)}
    IN byIndex \cup
       {[index |-> indices[i], leaf |-> MapLeaf(indices[i], <<>>, <<>>)] :
            i \in {j \in 1..Len(indices) :
                      ~ \E b \in byIndex : b.index = indices[j]}}

\* The entry checks of the four RPCs that end in getLeavesByRevision: only
\* GetLeavesByRevision looks at the revision.
EntryCheck(name, revision) ==
    IF name = "GetLeavesByRevision" /\ revision < 0 THEN Err("Unknown") ELSE NoErr

\* Faulty variant: every RPC reads at the most recent revision.
RevisionArgLatest(name, revision) == mostRecentRevision

\* The revision each RPC hands to getLeavesByRevision.
RevisionArg(name, revision) ==
    IF name \in {"GetLeaf", "GetLeaves"} THEN mostRecentRevision ELSE revision

GetLeavesOps == {"GetLeaf", "GetLeaves", "GetLeafByRevision", "GetLeavesByRevision"}

OpRequests(name, requests) ==
    {r \in requests :
        /\ name \in {"GetLeaf", "GetLeafByRevision"} => Len(r.indices) = 1
        /\ name \in {"GetLeaf", "GetLeaves"} => r.rev = 0}

\* getLeavesByRevision from its entry to the read of the signed root.
ReadBegin(c, requests) ==
    /\ CanStart(c)
    /\ \E name \in GetLeavesOps : \E request \in OpRequests(name, requests) :
        /\ Start(c, name, request)
        /\ LET e == EntryCheck(name, request.rev)
               revision == RevisionArg(name, request.rev)
               v == validateIndices(HashSize, request.indices)
               s == snapshotForTree
               t == s.tx
               found == IF revision < 0 THEN roots # {}
                        ELSE Visible(t, revision)
               root == IF revision < 0 THEN RootAt(roots, LatestRevision(roots))
                       ELSE RootAt(roots, revision)
           IN \/ e # NoErr /\ Return(c, NoTx, e, "revision", FALSE)
              \/ e = NoErr /\ Return(c, NoTx, Err("Unknown"), "getTree", TRUE)
              \/ e = NoErr /\ v # NoErr /\ Return(c, NoTx, v, "validate", FALSE)
              \/ e = NoErr /\ v = NoErr
                   /\ \/ Return(c, NoTx, Err("Unknown"), "snapshot", TRUE)
                      \/ s.err # NoErr
                           /\ Abandon(c, t, Err("Unknown"), "snapshot", FALSE)
                      \/ s.err = NoErr /\ Return(c, t, Err("Unknown"), "root", TRUE)
                      \/ s.err = NoErr /\ ~ found
                           /\ Return(c, t, Err("Unknown"), "root", FALSE)
                      \/ s.err = NoErr /\ found
                           /\ Goto(c, [t EXCEPT !.root = root], "rd_tasks")
    /\ UNCHANGED <<opts, store, aside>>

\* errCh := make(chan error, 2)
errChCap == 2

\* The leaves subtask: tx.Get at the root's revision, then the empty leaves.
\* Its send on errCh blocks while the channel is full.
LeavesTask(c) ==
    /\ pc[c] = "rd_tasks"
    /\ "leaves" \notin tx[c].joined
    /\ LET t == [tx[c] EXCEPT !.joined = @ \cup {"leaves"}] IN
          \/ /\ Len(t.errCh) < errChCap
             /\ Goto(c, [t EXCEPT !.errCh = Append(@, "leaves")], "rd_tasks")
          \/ Goto(c, [t EXCEPT !.got =
                         leavesByIndex(Get(leaves, t.root.rev, req[c].indices),
                                       req[c].indices)],
                  "rd_tasks")
    /\ UNCHANGED <<opts, store, op, req, aside>>

\* The proofs subtask: BatchInclusionProof at the root's revision.
ProofsTask(c) ==
    /\ pc[c] = "rd_tasks"
    /\ "proofs" \notin tx[c].joined
    /\ LET t == [tx[c] EXCEPT !.joined = @ \cup {"proofs"}] IN
          \/ /\ Len(t.errCh) < errChCap
             /\ Goto(c, [t EXCEPT !.errCh = Append(@, "proofs")], "rd_tasks")
          \/ Goto(c, [t EXCEPT !.proofs =
                         BatchInclusionProof(nodes, t.root.rev, req[c].indices)],
                  "rd_tasks")
    /\ UNCHANGED <<opts, store, op, req, aside>>

\* The response of getLeavesByRevision: one inclusion per requested index.
RECURSIVE Inclusions(_, _)
Inclusions(t, indices) ==
    IF indices = <<>> THEN <<>>
    ELSE LET index == Head(indices) IN
         <<[path |-> IF \E e \in t.proofs : e.index = index
                     THEN (CHOOSE e \in t.proofs : e.index = index).path
                     ELSE <<>>,
            leaf |-> IF \E e \in t.got : e.index = index
                     THEN (CHOOSE e \in t.got : e.index = index).leaf
                     ELSE NoLeaf]>> \o Inclusions(t, Tail(indices))

\* GetLeaf and GetLeafByRevision want exactly one inclusion back.
OneLeafCheck(name, incl) ==
    IF name \in {"GetLeaf", "GetLeafByRevision"} /\ Len(incl) # 1
    THEN Err("Internal") ELSE NoErr

\* The select on errCh after wg.Wait: the subtask whose error was sent
\* first, or "" when the channel is empty.
\* Faulty variant: the channel is not looked at.
selectNone(errCh) == ""

selectErr(errCh) == IF errCh # <<>> THEN Head(errCh) ELSE ""

\* Faulty variant: the handler goes on without waiting for the subtasks.
wgWaitNone(joined) == TRUE

\* wg.Wait returns once both subtasks have called wg.Done.
wgWait(joined) == joined = {"leaves", "proofs"}

\* wg.Wait, the error select, tx.Commit and the response; errCh is closed by
\* the deferred close when the function returns.
ReadFinish(c) ==
    /\ pc[c] = "rd_tasks"
    /\ wgWait(tx[c].joined)
    /\ LET t == tx[c]
           e == selectErr(t.errCh)
           t1 == Did(t, "commit")
           incl == Inclusions(t, req[c].indices)
           one == OneLeafCheck(op[c], incl)
       IN \/ e # "" /\ Return(c, t, Err("Unknown"), e, TRUE)
          \/ e = "" /\ Return(c, t, Err("Unknown"), "commit", TRUE)
          \/ e = "" /\ one # NoErr /\ Return(c, t1, one, "count", FALSE)
          \/ /\ e = "" /\ one = NoErr
             /\ pc' = [pc EXCEPT ![c] = "done"]
             /\ tx' = [tx EXCEPT ![c] = Closed(t1)]
             /\ rsp' = [rsp EXCEPT ![c] =
                           [NoRsp EXCEPT !.root = t.root, !.incl = incl]]
             /\ UNCHANGED fail
    /\ UNCHANGED <<opts, store, op, req, aside>>

\* Faulty variant: the leaves go out as stored.
KeepLeafHash(found) == found

\* GetLeavesByRevisionNoProof: the leaves tx.Get finds, LeafHash removed.
RECURSIVE StripLeafHash(_)
StripLeafHash(found) ==
    IF found = <<>> THEN <<>>
    ELSE <<[Head(found) EXCEPT !.hash = <<>>]>> \o StripLeafHash(Tail(found))

GetLeavesByRevisionNoProof(c, requests) ==
    /\ CanStart(c)
    /\ \E request \in requests :
        /\ Start(c, "GetLeavesByRevisionNoProof", request)
        /\ LET v == validateIndices(HashSize, request.indices)
               s == snapshotForTree
               t == s.tx
               found == Get(leaves, request.rev, request.indices)
           IN \/ request.rev < 0 /\ Return(c, NoTx, Err("Unknown"), "revision", FALSE)
              \/ request.rev >= 0
                   /\ \/ Return(c, NoTx, Err("Unknown"), "getTree", TRUE)
                      \/ v # NoErr /\ Return(c, NoTx, v, "validate", FALSE)
                      \/ v = NoErr
                           /\ \/ Return(c, NoTx, Err("Unknown"), "snapshot", TRUE)
                              \/ s.err # NoErr
                                   /\ Abandon(c, t, Err("Unknown"), "snapshot", FALSE)
                              \/ s.err = NoErr
                                   /\ Return(c, t, Err(FaultKind), "get", TRUE)
                              \/ /\ s.err = NoErr
                                 /\ pc' = [pc EXCEPT ![c] = "done"]
                                 /\ tx' = [tx EXCEPT ![c] = Closed(t)]
                                 /\ rsp' = [rsp EXCEPT ![c] = [NoRsp EXCEPT
                                               !.leaves = StripLeafHash(found)]]
                                 /\ UNCHANGED fail
    /\ UNCHANGED <<opts, store, aside>>

\* GetSignedMapRoot (revision = mostRecentRevision) and
\* GetSignedMapRootByRevision.
RootRequests == {[NoReq EXCEPT !.rev = r] : r \in -1..MaxRev}

GetSignedMapRoot(c) ==
    /\ CanStart(c)
    /\ \E name \in {"GetSignedMapRoot", "GetSignedMapRootByRevision"} :
       \E request \in IF name = "GetSignedMapRoot" THEN {NoReq} ELSE RootRequests :
        /\ Start(c, name, request)
        /\ LET byRev == name = "GetSignedMapRootByRevision"
               s == snapshotForTree
               t == s.tx
               found == IF byRev THEN Visible(t, request.rev) ELSE roots # {}
               root == IF byRev THEN RootAt(roots, request.rev)
                       ELSE RootAt(roots, LatestRevision(roots))
           IN \/ byRev /\ request.rev < 0
                   /\ Return(c, NoTx, Err("Unknown"), "revision", FALSE)
              \/ (byRev => request.rev >= 0)
                   /\ \/ Return(c, NoTx, Err(FaultKind), "getTree", TRUE)
                      \/ Return(c, NoTx, Err(FaultKind), "snapshot", TRUE)
                      \/ s.err # NoErr
                           /\ Abandon(c, t, s.err, "snapshot", FALSE)
                      \/ s.err = NoErr /\ Return(c, t, Err(FaultKind), "root", TRUE)
                      \/ s.err = NoErr /\ ~ found
                           /\ Return(c, t, Err("NotFound"), "root", FALSE)
                      \/ s.err = NoErr /\ found
                           /\ Return(c, t, Err(FaultKind), "commit", TRUE)
                      \/ /\ s.err = NoErr /\ found
                         /\ pc' = [pc EXCEPT ![c] = "done"]
                         /\ tx' = [tx EXCEPT ![c] = Closed(t)]
                         /\ rsp' = [rsp EXCEPT ![c] = [NoRsp EXCEPT !.root = root]]
                         /\ UNCHANGED fail
    /\ UNCHANGED <<opts, store, aside>>

\* ----------------------------------------------------------- specifications
\* Two concurrent writers (InitMap, SetLeaves) under either runner.
WriteRequests ==
    SetLeavesRequests({ << Leaf(IdxY, ValB), Leaf(IdxX, ValEmpty) >>,
                        << Leaf(IdxX, ValA), Leaf(IdxX, ValB) >> })

WriteNext ==
    \E c \in Calls :
        \/ InitMapBegin(c)
        \/ SetLeavesBegin(c, WriteRequests)
        \/ CalcUnit(c)
        \/ Commit(c)
        \/ Forget(c)

SpecW == Init /\ [][WriteNext]_vars

\* Two concurrent writers of different batches, no revision asserted, under
\* the multi-transaction runner and under the single-transaction runner with
\* preload.
InitR == Init /\ opts.preload = opts.single

RaceRequests == {r \in SetLeavesRequests(ValidBatches) : r.rev = 0}

RaceNext ==
    \E c \in Calls :
        \/ InitMapBegin(c)
        \/ SetLeavesBegin(c, RaceRequests)
        \/ CalcUnit(c)
        \/ Commit(c)
        \/ Forget(c)

SpecR == InitR /\ [][RaceNext]_vars

\* One call at a time: every RPC, every request.
ServeWrites == SetLeavesRequests(ValidBatches \cup InvalidBatches)
ServeReads == ReadRequests(IndexLists)

ServeNext ==
    \E c \in {1} :
        \/ InitMapBegin(c)
        \/ SetLeavesBegin(c, ServeWrites)
        \/ CalcUnit(c)
        \/ Commit(c)
        \/ ReadBegin(c, ServeReads)
        \/ LeavesTask(c)
        \/ ProofsTask(c)
        \/ ReadFinish(c)
        \/ GetLeavesByRevisionNoProof(c, ServeReads)
        \/ GetSignedMapRoot(c)
        \/ Forget(c)

Spec == Init /\ [][ServeNext]_vars

\* validateIndices on its own, over every list of at most MaxIndices indices.
Indices == {IdxX, IdxY, IdxShort, IdxLong}
IndexInputs == UNION {[1..n -> Indices] : n \in 0..MaxIndices}
Pending == Err("Pending")

InitV ==
    /\ ServerInit
    /\ vIn \in IndexInputs
    /\ vOut = Pending
    /\ SiblingsIdle
    /\ RetryIdle
    /\ HitIdle

Validate ==
    /\ vOut = Pending
    /\ vOut' = validateIndices(HashSize, vIn)
    /\ UNCHANGED <<opts, store, pc, op, req, tx, rsp, fail, vIn, pvars, rvars,
                   hvars>>

SpecV == InitV /\ [][Validate]_vars

\* ------------------------------------------------- calcAllSiblingsParallel
\* calcAllSiblingsParallel on its own: one producer goroutine per entry of
\* hkv, the goroutine that closes the channel, and the consuming loop.
IdxZ == Zeroes(HashSize - 1) \o <<1>>

PreloadInputs ==
    { <<>>, <<IdxX>>, <<IdxX, IdxY>>, <<IdxX, IdxZ>>, <<IdxX, IdxX>> }

server == <<opts, store, pc, op, req, tx, rsp, fail>>

RECURSIVE NoneSent(_)
NoneSent(n) == IF n = 0 THEN <<>> ELSE Append(NoneSent(n - 1), 0)

\* doPreload runs under UseSingleTransaction with UseLargePreload.
InitP ==
    /\ ServerInit
    /\ opts = [preload |-> TRUE, single |-> TRUE]
    /\ vIn = <<>>
    /\ vOut = NoErr
    /\ hkvIn \in PreloadInputs
    /\ sent = NoneSent(Len(hkvIn))
    /\ sibCh = <<>>
    /\ chClosed = FALSE
    /\ nidSet = {}
    /\ nids = <<>>
    /\ sibPc = "run"
    /\ RetryIdle
    /\ HitIdle

\* nid.Siblings(): the k-th sibling, from the leaf's upwards.
SiblingAt(nid, k) == Flip(SubSeq(nid, 1, Len(nid) + 1 - k))

\* A producer sends its next sibling; it blocks while the channel is full.
Produce(i) ==
    /\ sibPc = "run"
    /\ sent[i] < BitLen
    /\ Len(sibCh) < ChanCap
    /\ sibCh' = Append(sibCh, SiblingAt(NewNodeIDFromHash(hkvIn[i]), sent[i] + 1))
    /\ sent' = [sent EXCEPT ![i] = @ + 1]
    /\ UNCHANGED <<server, vvars, rvars, hvars, hkvIn, chClosed, nidSet, nids, sibPc>>

\* Faulty variant: the closing goroutine does not wait for the producers.
wgDoneEarly(progress) == TRUE

\* wg.Wait of the closing goroutine: every producer has sent all its
\* siblings and run its deferred wg.Done.
wgDone(progress) == \A i \in 1..Len(progress) : progress[i] = BitLen

\* wg.Wait returned: every producer is done; close(c).
CloseChannel ==
    /\ sibPc = "run"
    /\ ~ chClosed
    /\ wgDone(sent)
    /\ chClosed' = TRUE
    /\ UNCHANGED <<server, vvars, rvars, hvars, hkvIn, sent, sibCh, nidSet, nids, sibPc>>

\* Faulty variant: every id received is appended.
appendAlways(seen, list, id) == Append(list, id)

\* The body of the consuming loop: an id not seen before is appended.
appendNew(seen, list, id) == IF id \in seen THEN list ELSE Append(list, id)

\* The consumer receives one id.
Consume ==
    /\ sibPc = "run"
    /\ sibCh # <<>>
    /\ sibCh' = Tail(sibCh)
    /\ nids' = appendNew(nidSet, nids, Head(sibCh))
    /\ nidSet' = nidSet \cup {Head(sibCh)}
    /\ UNCHANGED <<server, vvars, rvars, hvars, hkvIn, sent, chClosed, sibPc>>

\* The channel is closed and drained: the range loop ends, nids is returned.
ReturnNids ==
    /\ sibPc = "run"
    /\ chClosed /\ sibCh = <<>>
    /\ sibPc' = "returned"
    /\ UNCHANGED <<server, vvars, rvars, hvars, hkvIn, sent, sibCh, chClosed, nidSet, nids>>

SiblingsNext ==
    \/ \E i \in 1..Len(hkvIn) : Produce(i)
    \/ CloseChannel
    \/ Consume
    \/ ReturnNids

SpecP == InitP /\ [][SiblingsNext]_vars

\* The Go scheduler runs every goroutine that can take a step: some producer
\* that can send, the closing goroutine, and the consuming loop.
SiblingsFair ==
    /\ WF_vars(\E i \in 1..Len(hkvIn) : Produce(i))
    /\ WF_vars(CloseChannel)
    /\ WF_vars(Consume)
    /\ WF_vars(ReturnNids)

SpecPFair == InitP /\ [][SiblingsNext]_vars /\ SiblingsFair

\* ------------------------------------------------------ the hammer: retryOp
\* What a map operation of the hammer returns: nil, errSkip, an
\* ErrInvariant, or another error (two, to tell the first from a later one).
Ordinary == {"errA", "errB"}
Outcomes == {"nil", "skip", "invariant"} \cup Ordinary

InitRetry ==
    /\ ServerInit
    /\ opts = HammerOpts
    /\ vIn = <<>>
    /\ vOut = NoErr
    /\ SiblingsIdle
    /\ HitIdle
    /\ retryErrors \in BOOLEAN
    /\ firstErr = "nil"
    /\ late = FALSE
    /\ ctxErr = "nil"
    /\ attempts = <<>>
    /\ retryPc = "start"
    /\ retryRet = "nil"

notRetry == <<server, vvars, pvars, hvars>>

\* retryOneOp with an invalid operation: the operation is called once and
\* its error returned.
InvalidOp ==
    /\ retryPc = "start"
    /\ \E err \in Outcomes :
        /\ attempts' = Append(attempts, err)
        /\ retryRet' = err
    /\ retryPc' = "returned"
    /\ UNCHANGED <<notRetry, retryErrors, firstErr, late, ctxErr>>

\* retryOneOp with a valid operation: retryOp, up to its loop.
ValidOp ==
    /\ retryPc = "start"
    /\ retryPc' = "loop"
    /\ UNCHANGED <<notRetry, retryErrors, firstErr, late, ctxErr, attempts,
                   retryRet>>

\* Faulty variant: an ErrInvariant is treated like any other error.
switchInvariantOrdinary(first, err, retry) ==
    IF err \in {"nil", "skip"} THEN [firstErr |-> "nil", done |-> TRUE]
    ELSE [firstErr |-> IF first = "nil" THEN err ELSE first,
          done |-> ~ retry]

\* The type switch of retryOp on the error of an attempt.
switchErr(first, err, retry) ==
    IF err \in {"nil", "skip"} THEN [firstErr |-> "nil", done |-> TRUE]
    ELSE IF err = "invariant" THEN [firstErr |-> err, done |-> TRUE]
    ELSE [firstErr |-> IF first = "nil" THEN err ELSE first,
          done |-> ~ retry]

\* Faulty variant: the deadline does not end the loop.
deadlineIgnored(r, isLate, cerr) == r

\* The deadline check that ends an iteration of retryOp.
deadlineCheck(r, isLate, cerr) ==
    IF isLate
    THEN [firstErr |-> IF r.firstErr = "nil" THEN cerr ELSE r.firstErr,
          done |-> TRUE]
    ELSE r

\* One iteration of the loop of retryOp: fn is called, then the switch and
\* the deadline check; the loop ends or goes round.
Attempt ==
    /\ retryPc = "loop"
    /\ Len(attempts) < MaxAttempts
    /\ \E err \in Outcomes :
        LET r == deadlineCheck(switchErr(firstErr, err, retryErrors), late, ctxErr)
        IN /\ attempts' = Append(attempts, err)
           /\ firstErr' = r.firstErr
           /\ retryPc' = IF r.done THEN "returned" ELSE "loop"
           /\ retryRet' = IF r.done THEN r.firstErr ELSE retryRet
    /\ UNCHANGED <<notRetry, retryErrors, late, ctxErr>>

\* The operation deadline passes.
DeadlinePasses ==
    /\ retryPc \in {"start", "loop"}
    /\ ~ late
    /\ late' = TRUE
    /\ UNCHANGED <<notRetry, retryErrors, firstErr, ctxErr, attempts, retryPc,
                   retryRet>>

\* The context is cancelled or runs out.
ContextEnds ==
    /\ retryPc \in {"start", "loop"}
    /\ ctxErr = "nil"
    /\ ctxErr' = "canceled"
    /\ UNCHANGED <<notRetry, retryErrors, firstErr, late, attempts, retryPc,
                   retryRet>>

RetryNext ==
    \/ InvalidOp
    \/ ValidOp
    \/ Attempt
    \/ DeadlinePasses
    \/ ContextEnds

SpecRetry == InitRetry /\ [][RetryNext]_vars

\* ------------------------------------------------------ the hammer: HitMap
\* HitMap from the start of its goroutines: the worker (goroutine 0) in
\* performOperations, the checkers (1..NumCheckers) in readChecker, and the
\* select, close(done), wg.Wait and return of HitMap itself.
Checkers == 1..NumCheckers

InitHit ==
    /\ ServerInit
    /\ opts = HammerOpts
    /\ vIn = <<>>
    /\ vOut = NoErr
    /\ SiblingsIdle
    /\ RetryIdle
    /\ errs = <<>>
    /\ doneClosed = FALSE
    /\ ctxDone = FALSE
    /\ gPc = [g \in Goroutines |-> "check"]
    /\ gErr = [g \in Goroutines |-> Nil]
    /\ count = 0
    /\ hitPc = "select"
    /\ hitErr = Nil
    /\ took = "none"
    /\ arrivals = <<>>

notHit == <<server, vvars, pvars, rvars>>

\* Faulty variant: errs has room for the checkers only.
errsCapCheckers == NumCheckers

\* make(chan error, cfg.NumCheckers+1)
errsCap == NumCheckers + 1

\* The error of goroutine g's operation, when it fails.
ErrOf(g) == g

\* performOperations at the head of its loop: the operations are all done or
\* done is closed (it returns nil), or the next operation starts.
WorkerCheck ==
    /\ gPc[0] = "check"
    /\ IF count >= Operations \/ doneClosed
       THEN gPc' = [gPc EXCEPT ![0] = "send"]
       ELSE gPc' = [gPc EXCEPT ![0] = "op"]
    /\ UNCHANGED <<notHit, errs, doneClosed, ctxDone, gErr, count, hitPc,
                   hitErr, took, arrivals>>

\* retryOneOp returns: nil (the loop goes on) or an error (it is returned).
WorkerOp ==
    /\ gPc[0] = "op"
    /\ \/ /\ count' = count + 1
          /\ gPc' = [gPc EXCEPT ![0] = "check"]
          /\ UNCHANGED gErr
       \/ /\ gErr' = [gErr EXCEPT ![0] = ErrOf(0)]
          /\ gPc' = [gPc EXCEPT ![0] = "send"]
          /\ UNCHANGED count
    /\ UNCHANGED <<notHit, errs, doneClosed, ctxDone, hitPc, hitErr, took,
                   arrivals>>

\* readChecker at the head of its loop: done is closed (it returns nil, and
\* nothing is sent), or the next read starts.
CheckerCheck(g) ==
    /\ gPc[g] = "check"
    /\ IF doneClosed
       THEN gPc' = [gPc EXCEPT ![g] = "exit"]
       ELSE gPc' = [gPc EXCEPT ![g] = "op"]
    /\ UNCHANGED <<notHit, errs, doneClosed, ctxDone, gErr, count, hitPc,
                   hitErr, took, arrivals>>

\* getLeavesRev returns: nil or errSkip (the loop goes on) or another error.
CheckerOp(g) ==
    /\ gPc[g] = "op"
    /\ \/ /\ gPc' = [gPc EXCEPT ![g] = "check"]
          /\ UNCHANGED gErr
       \/ /\ gErr' = [gErr EXCEPT ![g] = ErrOf(g)]
          /\ gPc' = [gPc EXCEPT ![g] = "send"]
    /\ UNCHANGED <<notHit, errs, doneClosed, ctxDone, count, hitPc, hitErr,
                   took, arrivals>>

\* errs <- err: the goroutine blocks while the channel is full.
Send(g) ==
    /\ gPc[g] = "send"
    /\ Len(errs) < errsCap
    /\ errs' = Append(errs, gErr[g])
    /\ arrivals' = Append(arrivals, [err |-> gErr[g], from |-> g])
    /\ gPc' = [gPc EXCEPT ![g] = "exit"]
    /\ UNCHANGED <<notHit, doneClosed, ctxDone, gErr, count, hitPc, hitErr,
                   took>>

\* The context of HitMap is cancelled.
Cancel ==
    /\ hitPc = "select"
    /\ ~ ctxDone
    /\ ctxDone' = TRUE
    /\ UNCHANGED <<notHit, errs, doneClosed, gPc, gErr, count, hitPc, hitErr,
                   took, arrivals>>

\* The select of HitMap, then close(done).
Select ==
    /\ hitPc = "select"
    /\ \/ /\ ctxDone
          /\ took' = "ctx"
          /\ UNCHANGED <<errs, hitErr>>
       \/ /\ errs # <<>>
          /\ took' = "errs"
          /\ hitErr' = Head(errs)
          /\ errs' = Tail(errs)
    /\ doneClosed' = TRUE
    /\ hitPc' = "wait"
    /\ UNCHANGED <<notHit, ctxDone, gPc, gErr, count, arrivals>>

\* wg.Wait returned: close(errs), what is left in it is logged, firstErr is
\* returned.
Finish ==
    /\ hitPc = "wait"
    /\ \A g \in Goroutines : gPc[g] = "exit"
    /\ errs' = <<>>
    /\ hitPc' = "returned"
    /\ UNCHANGED <<notHit, doneClosed, ctxDone, gPc, gErr, count, hitErr, took,
                   arrivals>>

HitNext ==
    \/ WorkerCheck
    \/ WorkerOp
    \/ \E g \in Checkers : CheckerCheck(g)
    \/ \E g \in Checkers : CheckerOp(g)
    \/ \E g \in Goroutines : Send(g)
    \/ Cancel
    \/ Select
    \/ Finish

\* Every goroutine that can run does run, and so does HitMap.
HitFair ==
    /\ WF_vars(WorkerCheck) /\ WF_vars(WorkerOp)
    /\ \A g \in Checkers : WF_vars(CheckerCheck(g)) /\ WF_vars(CheckerOp(g))
    /\ \A g \in Goroutines : WF_vars(Send(g))
    /\ WF_vars(Select) /\ WF_vars(Finish)

SpecHit == InitHit /\ [][HitNext]_vars /\ HitFair

\* ------------------------------------------------------------------ claims
\* Call c takes the step.
Acts(c) == pc'[c] # pc[c] \/ tx'[c] # tx[c]

\* Call c returns in the step.
Finishes(c) == pc[c] # "done" /\ pc'[c] = "done"

\* C1: a SetLeaves call that succeeds returns the signed root of the revision
\* one above the latest revision committed before the call, and that root is
\* the new latest one; the latest revision of the tree never decreases and
\* never skips a value.
C1_RevisionAdvancesByOne ==
    [][/\ LatestRevision(roots') \in
              {LatestRevision(roots), LatestRevision(roots) + 1}
       /\ \A r \in 0..LatestRevision(roots') : HasRoot(roots', r)
       /\ \A c \in Calls :
            (op[c] = "SetLeaves" /\ Finishes(c) /\ rsp'[c].err = NoErr) =>
                /\ tx[c].readRev = LatestRevision(roots)
                /\ rsp'[c].root.rev = tx[c].readRev + 1
                /\ rsp'[c].root \in roots'
                /\ LatestRevision(roots') = rsp'[c].root.rev]_vars

\* A second SetLeaves in a row has succeeded.
C1_Witness ==
    \E c \in Calls :
        /\ op[c] = "SetLeaves" /\ pc[c] = "done"
        /\ rsp[c].err = NoErr /\ rsp[c].root.rev = 2

\* Calls c and d are SetLeaves calls that ran concurrently from the same
\* latest revision towards the same write revision, both have returned, and
\* no collaborator failed in either.
SameRevisionRace(c, d) ==
    /\ c # d
    /\ \A x \in {c, d} :
        /\ op[x] = "SetLeaves" /\ pc[x] = "done" /\ ~ fail[x].fault
        /\ tx[x].writeRev >= 1
        /\ req[x].rev \in {0, tx[x].writeRev}
    /\ tx[c].readRev = tx[d].readRev
    /\ tx[c].writeRev = tx[d].writeRev

\* C2: of two concurrent SetLeaves calls with the same write revision exactly
\* one succeeds and the other fails with FailedPrecondition.
C2_OneWriterPerRevision ==
    \A c, d \in Calls :
        SameRevisionRace(c, d) =>
            \/ rsp[c].err = NoErr /\ rsp[d].err.kind = "FailedPrecondition"
            \/ rsp[d].err = NoErr /\ rsp[c].err.kind = "FailedPrecondition"

\* Two calls asserting revision k+1 raced; one won, the other lost.
C2_Witness ==
    \E c, d \in Calls :
        /\ SameRevisionRace(c, d)
        /\ req[c].rev = tx[c].writeRev /\ req[d].rev = tx[d].writeRev
        /\ rsp[c].err = NoErr
        /\ rsp[d].err.kind = "FailedPrecondition"

TxSteps ==
    {"writeRev", "writeLeaves", "preload", "writer", "calculateRoot", "sign",
     "storeRoot"}

\* C4: a SetLeaves call stores no root and no leaf before it returns, and if
\* one of its steps fails the call returns the error in that very step with
\* the stored roots and leaves as they were: its transaction never commits.
C4_FailureStoresNothing ==
    [][\A c \in Calls :
         (op'[c] = "SetLeaves" /\ Acts(c)) =>
            /\ pc'[c] # "done" =>
                  /\ fail'[c].step = ""
                  /\ roots' = roots /\ leaves' = leaves
                  /\ rootCommits' = rootCommits
            /\ fail'[c].step \in TxSteps =>
                  /\ pc'[c] = "done" /\ rsp'[c].err # NoErr
                  /\ roots' = roots /\ leaves' = leaves
                  /\ rootCommits' = rootCommits]_vars

\* Storing the root failed: the latest revision is the one the call started
\* from and none of its leaves is stored.
C4_Witness ==
    \E c \in Calls :
        /\ op[c] = "SetLeaves" /\ pc[c] = "done"
        /\ fail[c].step = "storeRoot"
        /\ LatestRevision(roots) = tx[c].readRev
        /\ ~ \E l \in leaves : l.rev = tx[c].writeRev

\* The value written for index at or before rev, or the empty value.
WrittenAsOf(w, rev, index) ==
    LET vs == {e \in w : e.index = index /\ e.rev <= rev} IN
    IF vs = {} THEN <<>>
    ELSE (CHOOSE e \in vs : \A f \in vs : f.rev <= e.rev).value

\* The revision a finished read was to be served at (one call at a time).
ReadAt(c) ==
    IF op[c] \in {"GetLeaf", "GetLeaves"} THEN LatestRevision(roots)
    ELSE req[c].rev

\* C5: a successful read at revision r returns, for every index, the value
\* most recently committed at or before r, with the signed root of r, however
\* many later revisions overwrite the index; a read at latest is served at
\* the latest revision.
C5_ReadsReturnWritten ==
    \A c \in Calls :
        (/\ op[c] \in GetLeavesOps /\ pc[c] = "done"
         /\ rsp[c].err = NoErr /\ req[c].rev >= 0) =>
            /\ HasRoot(roots, ReadAt(c))
            /\ rsp[c].root = RootAt(roots, ReadAt(c))
            /\ Len(rsp[c].incl) = Len(req[c].indices)
            /\ \A k \in 1..Len(req[c].indices) :
                 /\ rsp[c].incl[k].leaf.index = req[c].indices[k]
                 /\ rsp[c].incl[k].leaf.value =
                        WrittenAsOf(written, ReadAt(c), req[c].indices[k])

\* A read at revision 1 returns the value written there after revision 2
\* has emptied the index.
C5_Witness ==
    \E c \in Calls :
        /\ op[c] = "GetLeafByRevision" /\ pc[c] = "done"
        /\ rsp[c].err = NoErr
        /\ req[c].rev = 1 /\ req[c].indices = <<IdxX>>
        /\ rsp[c].incl[1].leaf.value = ValA
        /\ \E e \in written : e.index = IdxX /\ e.rev = 2 /\ e.value = ValEmpty

\* The read of call c names a revision that has a root.
Readable(c) ==
    IF op[c] \in {"GetLeaf", "GetLeaves"} THEN roots # {}
    ELSE req[c].rev >= 0 /\ HasRoot(roots, req[c].rev)

EmptyMapRoot ==
    [hash |-> HashEmpty(MapID, Zeroes(HashSize), BitLen), meta |-> <<>>,
     rev |-> 0]

\* C7: InitMap on a map without a stored root, no collaborator failing,
\* stores and returns the signed root with revision 0, no metadata and the
\* hash of the empty tree.
C7_InitMapStoresEmptyRoot ==
    \A c \in Calls :
        (/\ op[c] = "InitMap" /\ pc[c] = "done"
         /\ ~ fail[c].fault /\ tx[c].readRev < 0) =>
            /\ rsp[c].err = NoErr
            /\ rsp[c].root = EmptyMapRoot
            /\ roots = {EmptyMapRoot}

\* InitMap has succeeded on a fresh map.
C7_Witness ==
    \E c \in Calls :
        /\ op[c] = "InitMap" /\ pc[c] = "done" /\ rsp[c].err = NoErr
        /\ rsp[c].root.rev = 0 /\ roots = {rsp[c].root}

\* C8: InitMap called on a map that has a stored root returns at once with
\* an error, AlreadyExists unless a collaborator failed, and stores nothing.
C8_InitMapTwiceAlreadyExists ==
    [][\A c \in Calls :
         (pc[c] = "idle" /\ op'[c] = "InitMap" /\ roots # {}) =>
            /\ pc'[c] = "done"
            /\ rsp'[c].err # NoErr
            /\ ~ fail'[c].fault => rsp'[c].err.kind = "AlreadyExists"
            /\ roots' = roots /\ leaves' = leaves /\ nodes' = nodes]_vars

\* InitMap was refused on a map that SetLeaves had already advanced.
C8_Witness ==
    \E c \in Calls :
        /\ op[c] = "InitMap" /\ pc[c] = "done"
        /\ rsp[c].err.kind = "AlreadyExists"
        /\ LatestRevision(roots) >= 1

\* The index at position i (from 1) has the wrong length or repeats an
\* earlier index.
Offends(indices, i) ==
    \/ Len(indices[i]) # HashSize
    \/ \E j \in 1..(i - 1) : indices[j] = indices[i]

\* C9: validateIndices fails, with InvalidArgument, exactly when some index
\* has the wrong length or repeats an earlier one, and then reports the
\* zero-based position of the first such index; otherwise it succeeds.
C9_ValidateIndices ==
    vOut # Pending =>
        IF \E i \in 1..Len(vIn) : Offends(vIn, i)
        THEN /\ vOut.kind = "InvalidArgument"
             /\ Offends(vIn, vOut.pos + 1)
             /\ \A j \in 1..vOut.pos : ~ Offends(vIn, j)
        ELSE vOut = NoErr

\* [X, X] was refused at position 1.
C9_Witness ==
    /\ vIn = <<IdxX, IdxX>>
    /\ vOut.kind = "InvalidArgument"
    /\ vOut.pos = 1

\* C10 as stated: GetSignedMapRootByRevision, GetLeavesByRevision and
\* GetLeavesByRevisionNoProof with a negative revision fail with
\* InvalidArgument.
C10_NegativeRevisionInvalidArgument ==
    \A c \in Calls :
        (/\ pc[c] = "done" /\ req[c].rev < 0
         /\ op[c] \in {"GetSignedMapRootByRevision", "GetLeavesByRevision",
                       "GetLeavesByRevisionNoProof"}) =>
            rsp[c].err.kind = "InvalidArgument"

\* C11 as stated: GetLeafByRevision with a negative revision is rejected,
\* never answered with the leaf and the root of the latest revision.
C11_NegativeRevisionRejected ==
    \A c \in Calls :
        (op[c] = "GetLeafByRevision" /\ pc[c] = "done" /\ req[c].rev < 0) =>
            rsp[c].err # NoErr

\* C12: a SetLeaves call whose non-zero expected revision differs from the
\* write revision returns in its first step with an error, FailedPrecondition
\* unless a collaborator failed or the indices are malformed, without having
\* set a leaf, and the stored leaves, nodes and roots are as they were.
C12_WrongRevisionFailedPrecondition ==
    [][\A c \in Calls :
         (/\ pc[c] = "idle" /\ op'[c] = "SetLeaves"
          /\ req'[c].rev # 0
          /\ req'[c].rev # LatestRevision(roots) + 1) =>
            /\ pc'[c] = "done"
            /\ rsp'[c].err # NoErr
            /\ (/\ ~ fail'[c].fault
                /\ roots # {}
                /\ validateIndices(HashSize, IndicesOf(req'[c].leaves)) = NoErr)
                  => /\ rsp'[c].err.kind = "FailedPrecondition"
                     /\ fail'[c].step = "writeRev"
            /\ \A k \in 1..Len(tx'[c].steps) : tx'[c].steps[k] # "writeLeaves"
            /\ roots' = roots /\ leaves' = leaves /\ nodes' = nodes]_vars

\* A SetLeaves expecting a revision that is not the next one was refused.
C12_Witness ==
    \E c \in Calls :
        /\ op[c] = "SetLeaves" /\ pc[c] = "done"
        /\ req[c].rev # 0 /\ req[c].rev # tx[c].readRev + 1
        /\ fail[c].step = "writeRev" /\ ~ fail[c].fault
        /\ rsp[c].err.kind = "FailedPrecondition"
        /\ tx[c].readRev >= 0

\* C13: a signed root, once stored for a revision, stays stored as it is:
\* every step keeps every stored root, and no revision has two roots.
C13_StoredRootImmutable ==
    [][/\ \A r \in roots : r \in roots'
       /\ \A r1, r2 \in roots' : r1.rev = r2.rev => r1 = r2]_vars

\* A transaction that had prepared another root for a revision that has one
\* was refused at commit, and the stored root of that revision is not its own.
C13_Witness ==
    \E c \in Calls :
        /\ op[c] = "SetLeaves" /\ pc[c] = "done"
        /\ fail[c].step = "commit" /\ ~ fail[c].fault
        /\ HasRoot(roots, tx[c].writeRev)
        /\ \E d \in Calls :
             /\ d # c /\ op[d] = "SetLeaves" /\ pc[d] = "done"
             /\ rsp[d].err = NoErr /\ rsp[d].root.rev = tx[c].writeRev
             /\ req[d].leaves # req[c].leaves
             /\ rsp[d].root \in roots

\* The RPCs that only read.
ReadOps ==
    GetLeavesOps \cup
        {"GetLeavesByRevisionNoProof", "GetSignedMapRoot",
         "GetSignedMapRootByRevision"}

\* The inclusions a read of indices at revision rev is due from the stores
\* ls and ns: per index the stored leaf as of rev, or the empty leaf, and
\* the proof.
RECURSIVE InclusionsDue(_, _, _, _)
InclusionsDue(ls, ns, indices, rev) ==
    IF indices = <<>> THEN <<>>
    ELSE LET index == Head(indices) IN
         <<[path |-> InclusionProof(ns, rev, index),
            leaf |-> IF LeafVersions(ls, rev, index) = {}
                     THEN MapLeaf(index, <<>>, <<>>)
                     ELSE LeafAsOf(ls, rev, index)]>>
             \o InclusionsDue(ls, ns, Tail(indices), rev)

\* The index lists validateIndices accepts.
WellFormedLists == {l \in IndexLists : validateIndices(HashSize, l) = NoErr}

\* C14: a step of a read operation leaves the stored leaves, nodes and roots
\* as they are; a successful GetLeavesByRevision returns the root and the
\* inclusions due from the store for its indices and revision; and what is
\* due for a revision that has a root is the same after every step, a
\* SetLeaves commit included: two calls with the same arguments get the same
\* response.
C14_ReadsAreIdempotent ==
    [][/\ \A c \in Calls :
            (op'[c] \in ReadOps /\ Acts(c)) =>
                roots' = roots /\ leaves' = leaves /\ nodes' = nodes
       /\ \A rev \in Revs : \A l \in WellFormedLists :
            (/\ HasRoot(roots, rev)
             /\ <<roots, leaves, nodes>>' # <<roots, leaves, nodes>>) =>
                /\ HasRoot(roots', rev)
                /\ RootAt(roots', rev) = RootAt(roots, rev)
                /\ InclusionsDue(leaves', nodes', l, rev) =
                       InclusionsDue(leaves, nodes, l, rev)
       /\ \A c \in Calls :
            (/\ op'[c] = "GetLeavesByRevision" /\ Finishes(c)
             /\ rsp'[c].err = NoErr) =>
                /\ HasRoot(roots', req'[c].rev)
                /\ rsp'[c].root = RootAt(roots', req'[c].rev)
                /\ rsp'[c].incl =
                       InclusionsDue(leaves', nodes', req'[c].indices,
                                     req'[c].rev)]_vars

\* GetLeavesByRevision answered for revision 1 after revision 2 had been
\* committed with another value for the index.
C14_Witness ==
    \E c \in Calls :
        /\ op[c] = "GetLeavesByRevision" /\ pc[c] = "done"
        /\ rsp[c].err = NoErr
        /\ req[c].rev = 1 /\ req[c].indices = <<IdxY, IdxX>>
        /\ LatestRevision(roots) = 2
        /\ \E e, f \in written :
             /\ e.index = IdxX /\ f.index = IdxX
             /\ e.rev = 1 /\ f.rev = 2 /\ e.value # f.value

\* The (index, value) pairs of the map as of rev: per index the value written
\* last, at or before rev.
Contents(w, rev) ==
    {Leaf(e.index, e.value) :
        e \in {x \in w : /\ x.rev <= rev
                         /\ \A y \in w : (y.index = x.index /\ y.rev <= rev)
                                            => y.rev <= x.rev}}

\* The sparse Merkle tree hash of the subtree at id over a set of pairs.
RECURSIVE MerkleRoot(_, _)
MerkleRoot(id, content) ==
    LET below == {e \in content : IsPrefix(id, NewNodeIDFromHash(e.index))} IN
    IF below = {} THEN HashEmpty(MapID, Zeroes(HashSize), BitLen - Len(id))
    ELSE IF Len(id) = BitLen
    THEN LET e == CHOOSE x \in below : TRUE IN HashLeaf(MapID, e.index, e.value)
    ELSE HashChildren(MerkleRoot(id \o <<0>>, below),
                      MerkleRoot(id \o <<1>>, below))

Untorn ==
    \A n \in nodes :
        \E e \in written :
            e.rev = n.rev /\ IsPrefix(n.id, NewNodeIDFromHash(e.index))

RECURSIVE HashDue(_, _, _, _)
HashDue(id, ns, rev, batch) ==
    LET below == {l \in batch : IsPrefix(id, NewNodeIDFromHash(l.index))} IN
    IF below = {} THEN StoredOrEmpty(ns, rev, id)
    ELSE IF Len(id) = BitLen
    THEN LET l == CHOOSE x \in below : TRUE IN HashLeaf(MapID, l.index, l.value)
    ELSE HashChildren(HashDue(id \o <<0>>, ns, rev, below),
                      HashDue(id \o <<1>>, ns, rev, below))

C17_NoProofLeavesHaveNoHash ==
    \A c \in Calls :
        (/\ op[c] = "GetLeavesByRevisionNoProof" /\ pc[c] = "done"
         /\ rsp[c].err = NoErr) =>
            \A k \in 1..Len(rsp[c].leaves) :
                /\ rsp[c].leaves[k].hash = <<>>
                /\ \E l \in leaves :
                     /\ l.index = rsp[c].leaves[k].index
                     /\ l.value = rsp[c].leaves[k].value
                     /\ l.rev <= req[c].rev

\* A leaf stored with a leaf hash was returned without it.
C17_Witness ==
    \E c \in Calls :
        /\ op[c] = "GetLeavesByRevisionNoProof" /\ pc[c] = "done"
        /\ rsp[c].err = NoErr
        /\ Len(rsp[c].leaves) = 2
        /\ rsp[c].leaves[1].hash = <<>>
        /\ \E l \in leaves :
             /\ l.index = rsp[c].leaves[1].index
             /\ l.value = rsp[c].leaves[1].value
             /\ l.hash # <<>>

\* The steps that ran in the transaction before its step k.
Before(steps, k) == {steps[j] : j \in 1..(k - 1)}

\* C18: in a SetLeaves transaction the root is stored at most once, as the
\* last step, after the write revision was obtained, the leaves were set,
\* the writer took the batch and CalculateRoot and signing succeeded, each
\* after the other; the transaction is at its commit, or has committed, only
\* with the root stored.
C18_StoreRootLastAndOnce ==
    \A c \in Calls :
        op[c] = "SetLeaves" =>
            LET steps == tx[c].steps IN
            /\ \A k \in 1..Len(steps) :
                 /\ steps[k] = "storeRoot" =>
                       /\ k = Len(steps)
                       /\ "sign" \in Before(steps, k)
                 /\ steps[k] = "sign" => "calculateRoot" \in Before(steps, k)
                 /\ steps[k] = "calculateRoot" => "writer" \in Before(steps, k)
                 /\ steps[k] = "writer" => "writeLeaves" \in Before(steps, k)
                 /\ steps[k] = "writeLeaves" => "writeRev" \in Before(steps, k)
                 /\ steps[k] \notin Before(steps, k)
            /\ (pc[c] = "commit" \/ (pc[c] = "done" /\ rsp[c].err = NoErr)) =>
                  (steps # <<>> /\ steps[Len(steps)] = "storeRoot")
            /\ (pc[c] = "done" /\ fail[c].step = "storeRoot") =>
                  "storeRoot" \notin Before(steps, Len(steps) + 1)

\* A SetLeaves transaction with preload stands at its commit, root stored.
C18_Witness ==
    \E c \in Calls :
        /\ op[c] = "SetLeaves" /\ pc[c] = "commit"
        /\ tx[c].steps = <<"writeRev", "writeLeaves", "preload", "writer",
                            "calculateRoot", "sign", "storeRoot">>
        /\ tx[c].root.rev = tx[c].writeRev

\* C19: getLeavesByRevision returns only once both subtasks, run in either
\* order, have finished; if one of them failed, it returns an error, that of
\* the subtask whose failure was recorded first, with no root and no
\* inclusion, and the snapshot is not committed; otherwise it answers every
\* index.
C19_SubtasksJoinedFirstErrorWins ==
    [][\A c \in Calls :
         (pc[c] = "rd_tasks" /\ pc'[c] = "done") =>
            /\ tx[c].joined = {"leaves", "proofs"}
            /\ tx[c].errCh # <<>> =>
                  /\ rsp'[c].err # NoErr
                  /\ fail'[c].step = Head(tx[c].errCh)
                  /\ fail'[c].step \in {"leaves", "proofs"}
                  /\ rsp'[c].root = NoRoot /\ rsp'[c].incl = <<>>
                  /\ "commit" \notin Before(tx'[c].steps, Len(tx'[c].steps) + 1)
            /\ rsp'[c].err = NoErr =>
                  /\ tx[c].errCh = <<>>
                  /\ Len(rsp'[c].incl) = Len(req[c].indices)
                  /\ tx'[c].steps = <<"commit">>]_vars

\* Both subtasks failed, the proofs one first, and its error came back.
C19_Witness ==
    \E c \in Calls :
        /\ op[c] = "GetLeaves" /\ pc[c] = "done"
        /\ fail[c].step = "proofs"
        /\ rsp[c].err.kind = "Unknown" /\ rsp[c].incl = <<>>
        /\ tx[c].steps = <<>>

\* C20: with UseSingleTransaction set, no step of a SetLeaves changes the
\* stored leaves, nodes or roots or commits a transaction, except the commit of
\* the outer transaction of a call that succeeds; so a SetLeaves that fails at
\* any step leaves the store as it was, and nothing is stored at a revision
\* that has no root.
C20_SingleTransactionFailureLeavesNoTrace ==
    [][opts.single =>
         /\ \A c \in Calls :
               (op'[c] = "SetLeaves" /\ Acts(c)) =>
                  \/ store' = store
                  \/ /\ pc[c] = "commit" /\ Finishes(c)
                     /\ rsp'[c].err = NoErr
                     /\ commits' = Bump(commits, tx[c].writeRev)
         /\ \A n \in nodes' : HasRoot(roots', n.rev)
         /\ \A l \in leaves' : HasRoot(roots', l.rev)]_vars

\* A single-transaction SetLeaves ran every work unit, failed when it stored
\* its root, and nothing is stored at its write revision.
C20_Witness ==
    \E c \in Calls :
        /\ opts.single
        /\ op[c] = "SetLeaves" /\ pc[c] = "done"
        /\ rsp[c].err # NoErr
        /\ fail[c].step = "storeRoot"
        /\ "calculateRoot" \in Before(tx[c].steps, Len(tx[c].steps) + 1)
        /\ ~ HasRoot(roots, tx[c].writeRev)
        /\ \A n \in nodes : n.rev # tx[c].writeRev
        /\ \A l \in leaves : l.rev # tx[c].writeRev

\* A work unit of call c has just run: a subtree unit (the writer goes on) or
\* the top unit (CalculateRoot returned).
UnitRan(c) ==
    /\ pc[c] = "sl_calc"
    /\ \/ pc'[c] = "sl_calc" /\ tx'[c] # tx[c]
       \/ /\ "calculateRoot" \in Before(tx'[c].steps, Len(tx'[c].steps) + 1)
          /\ "calculateRoot" \notin Before(tx[c].steps, Len(tx[c].steps) + 1)

\* C21: with UseSingleTransaction unset, every work unit of the writer commits
\* a transaction of its own at the write revision: its nodes are in the store
\* at once, nothing is buffered in the outer transaction, and no later failure
\* of the call takes them back.
C21_MultiRunnerUnitsCommitAlone ==
    [][~ opts.single =>
         \A c \in Calls :
            /\ UnitRan(c) =>
                  /\ commits' = Bump(commits, tx[c].writeRev)
                  /\ \E n \in nodes' : n.rev = tx[c].writeRev
                  /\ \A u \in tx[c].pending \ tx'[c].pending :
                        \E n \in nodes' : n.rev = tx[c].writeRev /\ n.id = u
                  /\ \A n \in nodes' \ nodes : n.rev = tx[c].writeRev
                  /\ tx'[c].nodes = {}
                  /\ roots' = roots /\ leaves' = leaves
            /\ (op'[c] = "SetLeaves" /\ Finishes(c) /\ rsp'[c].err # NoErr) =>
                  \A n \in nodes :
                     \E m \in nodes' : m.rev = n.rev /\ m.id = n.id]_vars

\* The torn state: a multi-runner SetLeaves has failed, nodes of its write
\* revision are stored, and that revision has no signed root.
C21_Witness ==
    \E c \in Calls :
        /\ ~ opts.single
        /\ op[c] = "SetLeaves" /\ pc[c] = "done"
        /\ rsp[c].err # NoErr
        /\ \E n \in nodes : n.rev = tx[c].writeRev
        /\ ~ HasRoot(roots, tx[c].writeRev)

\* C22: a SetLeaves with expected revision 0 is never rejected by the
\* revision assertion; it writes at the revision after the one its
\* transaction read, whichever that is.
C22_ZeroRevisionIsNoAssertion ==
    [][\A c \in Calls :
         (op'[c] = "SetLeaves" /\ req'[c].rev = 0 /\ pc[c] = "idle" /\ Acts(c)) =>
            /\ ~ (fail'[c].step = "writeRev" /\ ~ fail'[c].fault)
            /\ pc'[c] = "sl_calc" =>
                  tx'[c].writeRev = LatestRevision(roots) + 1]_vars

\* Two SetLeaves with expected revision 0 succeeded at different revisions.
C22_Witness ==
    \E c, d \in Calls :
        /\ op[c] = "SetLeaves" /\ pc[c] = "done" /\ req[c].rev = 0
        /\ op[d] = "SetLeaves" /\ pc[d] = "done" /\ req[d].rev = 0
        /\ rsp[c].err = NoErr /\ rsp[d].err = NoErr
        /\ rsp[c].root.rev = 1 /\ rsp[d].root.rev = 2

\* C23: a GetLeavesByRevisionNoProof that succeeds read a revision that has
\* a signed root (where GetLeavesByRevision fails, it fails) and returns one
\* leaf per requested index, an empty leaf for each index absent at that
\* revision, as GetLeavesByRevision does.
C23_NoProofMatchesGetLeavesByRevision ==
    \A c \in Calls :
        (op[c] = "GetLeavesByRevisionNoProof" /\ pc[c] = "done"
            /\ rsp[c].err = NoErr) =>
           /\ HasRoot(roots, req[c].rev)
           /\ Len(rsp[c].leaves) = Len(req[c].indices)

\* The steps that ran in transaction t.
Ran(t) == Before(t.steps, Len(t.steps) + 1)

\* C24: SetLeaves preloads exactly when UseSingleTransaction and
\* UseLargePreload are both set, after the leaves are set and before the
\* writer is constructed; the preload is one GetMerkleNodes read, at the
\* transaction's read revision, of the siblings of the batch's paths, and it
\* writes nothing; if it fails the call fails with no writer run and no root
\* stored.
C24_PreloadOnlyUnderSingleAndLarge ==
    [][\A c \in Calls :
         (op'[c] = "SetLeaves" /\ pc[c] = "idle" /\ Acts(c)) =>
            LET t == tx'[c]
                pre == opts.single /\ opts.preload
            IN /\ "writer" \in Ran(t) => ("preload" \in Ran(t) <=> pre)
               /\ "preload" \in Ran(t) =>
                     /\ pre
                     /\ SubSeq(t.steps, 1, 3) =
                           <<"writeRev", "writeLeaves", "preload">>
                     /\ "writer" \in Ran(t) => t.steps[4] = "writer"
                     /\ pc'[c] = "sl_calc" =>
                           t.preload =
                              {[rev |-> t.readRev,
                                ids |-> calcAllSiblings(HKV(req'[c].leaves))]}
                     /\ t.readRev = LatestRevision(roots)
                     /\ t.nodes = {} /\ t.root = NoRoot
               /\ "preload" \notin Ran(t) => t.preload = {}
               /\ fail'[c].step = "preload" =>
                     /\ pre
                     /\ pc'[c] = "done" /\ rsp'[c].err # NoErr
                     /\ t.steps = <<"writeRev", "writeLeaves">>
               /\ store' = store]_vars

\* One SetLeaves has preloaded the siblings of its batch and stands before
\* its work units; another failed in its preload.
C24_Witness ==
    \E c, d \in Calls :
        /\ opts.single /\ opts.preload
        /\ op[c] = "SetLeaves" /\ pc[c] = "sl_calc"
        /\ \E p \in tx[c].preload : p.ids # {} /\ p.rev = tx[c].readRev
        /\ op[d] = "SetLeaves" /\ pc[d] = "done"
        /\ fail[d].step = "preload"

\* The hashed keys as the HashKeyValue set calcAllSiblings takes.
KeysOf(keys) == {[id |-> NewNodeIDFromHash(keys[i])] : i \in 1..Len(keys)}

\* C25: the list calcAllSiblingsParallel returns holds every sibling node id
\* of every input index's path, each exactly once, whatever the order in
\* which the producers ran; no id is ever in the list twice.
C25_SiblingsOnceEach ==
    /\ \A i, j \in 1..Len(nids) : nids[i] = nids[j] => i = j
    /\ sibPc = "returned" =>
          {nids[i] : i \in 1..Len(nids)} = calcAllSiblings(KeysOf(hkvIn))

\* Two indices that share all siblings but the leaf's: the list returned has
\* the shared ones once.
C25_Witness ==
    /\ sibPc = "returned"
    /\ hkvIn = <<IdxX, IdxZ>>
    /\ Len(nids) = BitLen + 1

\* The call opened a snapshot: it got past the revision check, the tree
\* lookup and the index validation, and the storage handed a snapshot back.
SnapshotOpened(c) ==
    /\ fail[c].step \notin {"revision", "getTree", "validate"}
    /\ ~ (fail[c].step = "snapshot" /\ fail[c].fault)

\* C26: when a read operation has returned, with a response or with any
\* error, the snapshot it opened is closed; so is the snapshot that the
\* storage handed back together with an error.
C26_SnapshotsClosedOnReturn ==
    \A c \in Calls :
        (op[c] \in ReadOps /\ pc[c] = "done") =>
           /\ tx[c].life # "open"
           /\ SnapshotOpened(c) => tx[c].life = "closed"

\* GetSignedMapRoot on a map with no root: the snapshot came back with
\* ErrTreeNeedsInit, the call returned the error, the snapshot is closed.
C26_Witness ==
    \E c \in Calls :
        /\ op[c] = "GetSignedMapRoot" /\ pc[c] = "done"
        /\ rsp[c].err = Err("TreeNeedsInit")
        /\ fail[c].step = "snapshot" /\ ~ fail[c].fault
        /\ tx[c].life = "closed"

\* C27: InitMap on a map with no root (the latest-root read reports
\* tree-needs-init) goes on to store the root of revision 0; any other error
\* of that read fails InitMap with FailedPrecondition and nothing stored; a
\* read operation on a map with no root returns an error and no root.
C27_NeedsInitIsControlFlowForInitMapOnly ==
    [][\A c \in Calls :
         /\ (op'[c] = "InitMap" /\ pc[c] = "idle" /\ Acts(c)) =>
               /\ (roots = {} /\ fail'[c] = NoFail) =>
                     /\ pc'[c] = "commit"
                     /\ tx'[c].root = rev0Root
               /\ fail'[c].step = "latestRoot" =>
                     /\ fail'[c].fault =>
                           rsp'[c].err = Err("FailedPrecondition")
                     /\ ~ fail'[c].fault =>
                           roots # {} /\ rsp'[c].err = Err("AlreadyExists")
                     /\ pc'[c] = "done"
               /\ store' = store
         /\ (op'[c] \in ReadOps /\ Finishes(c) /\ roots = {}) =>
               /\ rsp'[c].err # NoErr
               /\ rsp'[c].root = NoRoot
               /\ rsp'[c].incl = <<>> /\ rsp'[c].leaves = <<>>]_vars

\* InitMap on a map with no root has created revision 0.
C27_Witness ==
    \E c \in Calls :
        /\ op[c] = "InitMap" /\ pc[c] = "done"
        /\ rsp[c].err = NoErr
        /\ rsp[c].root = rev0Root
        /\ roots = {rev0Root}

\* C28: in retryOp an attempt that fails with an ErrInvariant is the last
\* one, and the ErrInvariant is what retryOp returns, with RetryErrors set or
\* not, before or after the deadline, whatever earlier attempts returned.
C28_InvariantErrorEndsRetry ==
    retryPc \in {"loop", "returned"} =>
       \A i \in 1..Len(attempts) :
          attempts[i] = "invariant" =>
             /\ i = Len(attempts)
             /\ retryPc = "returned"
             /\ retryRet = "invariant"

\* With RetryErrors set, an ordinary error was retried, the retry failed
\* with an ErrInvariant, and that is what came back.
C28_Witness ==
    /\ retryErrors
    /\ attempts = <<"errA", "invariant">>
    /\ retryPc = "returned"
    /\ retryRet = "invariant"

\* What an attempt's outcome is as a return value: nil for success and skip.
AsResult(err) == IF err \in {"nil", "skip"} THEN "nil" ELSE err

\* retryOp returns in this step.
RetryReturns == retryPc = "loop" /\ retryPc' = "returned"

\* C29 as stated: without RetryErrors retryOp makes one attempt and returns
\* its outcome (nil for success or skip); with RetryErrors it goes round
\* after each ordinary error, until an attempt succeeds or is skipped, when
\* it returns nil, or the deadline has passed, when it returns the first
\* error observed; an attempt that ends after the deadline is the last.
C29_RetryUntilSuccessOrDeadline ==
    [][/\ RetryReturns =>
            LET n == Len(attempts')
                last == attempts'[n]
            IN /\ ~ retryErrors => n = 1 /\ retryRet' = AsResult(last)
               /\ \A i \in 1..(n - 1) : attempts'[i] \in Ordinary
               /\ last \in {"nil", "skip"} => retryRet' = "nil"
               /\ (retryErrors /\ last \in Ordinary) =>
                     late /\ retryRet' = attempts'[1]
       /\ (retryPc = "loop" /\ attempts' # attempts /\ late) =>
            retryPc' = "returned"
       /\ (retryPc = "loop" /\ retryPc' = "loop" /\ attempts' # attempts) =>
            retryErrors /\ attempts'[Len(attempts')] \in Ordinary]_vars

\* C29: the same, but a successful or skipped attempt that ends after the
\* deadline returns ctx.Err(), which is nil only while the context is live.
C29_RetryUntilSuccessOrDeadlineCtxErr ==
    [][/\ RetryReturns =>
            LET n == Len(attempts')
                last == attempts'[n]
                ok == IF late THEN ctxErr ELSE "nil"
            IN /\ ~ retryErrors =>
                     /\ n = 1
                     /\ retryRet' = IF AsResult(last) = "nil" THEN ok ELSE last
               /\ \A i \in 1..(n - 1) : attempts'[i] \in Ordinary
               /\ last \in {"nil", "skip"} => retryRet' = ok
               /\ (retryErrors /\ last \in Ordinary) =>
                     late /\ retryRet' = attempts'[1]
       /\ (retryPc = "loop" /\ attempts' # attempts /\ late) =>
            retryPc' = "returned"
       /\ (retryPc = "loop" /\ retryPc' = "loop" /\ attempts' # attempts) =>
            retryErrors /\ attempts'[Len(attempts')] \in Ordinary]_vars

\* With RetryErrors set, an attempt failed and the retry succeeded, after the
\* deadline and with the context cancelled: ctx.Err() came back.
C29_Witness ==
    /\ retryErrors /\ late
    /\ attempts = <<"errA", "nil">>
    /\ retryPc = "returned"
    /\ retryRet = "canceled"

\* C30 as stated: what HitMap returns is the first value that arrived on
\* errs.
C30_FirstArrivalReturned ==
    hitPc = "returned" => arrivals # <<>> /\ hitErr = arrivals[1].err

\* C30: HitMap returns the first value that arrived on errs, or nil when its
\* select took the cancelled context; once done is closed no goroutine
\* starts another operation, and all have ended when HitMap returns, which
\* it does; each goroutine sends on errs at most once, the worker its error
\* or nil, a checker its error only, and a sender always finds room.
C30_FirstArrivalOrCancelReturned ==
    /\ [](/\ hitPc \in {"wait", "returned"} =>
               /\ took = "errs" => hitErr = arrivals[1].err
               /\ took = "ctx" => hitErr = Nil /\ ctxDone
               /\ took # "none" /\ doneClosed
          /\ hitPc = "returned" => \A g \in Goroutines : gPc[g] = "exit"
          /\ \A i, j \in 1..Len(arrivals) :
                arrivals[i].from = arrivals[j].from => i = j
          /\ \A i \in 1..Len(arrivals) :
                arrivals[i].err \in {arrivals[i].from} \cup
                    (IF arrivals[i].from = 0 THEN {Nil} ELSE {})
          /\ Len(errs) <= NumCheckers + 1
          /\ \A g \in Goroutines : gPc[g] = "send" => Len(errs) < errsCap)
    /\ [][\A g \in Goroutines :
            (gPc[g] = "check" /\ gPc'[g] = "op") => ~ doneClosed]_vars
    /\ <>(hitPc = "returned")

\* A checker's error arrived first and HitMap returned it; the worker's nil
\* and the other checker's error arrived behind it.
C30_Witness ==
    /\ hitPc = "returned"
    /\ took = "errs"
    /\ hitErr = 1
    /\ Len(arrivals) = NumCheckers + 1
    /\ arrivals[1] = [err |-> 1, from |-> 1]
    /\ \E i \in 1..Len(arrivals) : arrivals[i] = [err |-> Nil, from |-> 0]

\* C31: a getLeavesByRevision that succeeds answers with exactly one inclusion
\* per requested index, in the order of the request, and the leaf of the i-th
\* inclusion is present and carries the i-th requested index; hence GetLeaf
\* and GetLeafByRevision never end in their "Requested 1 leaf" Internal error.
C31_OneInclusionPerIndexInOrder ==
    \A c \in Calls :
        /\ (op[c] \in GetLeavesOps /\ pc[c] = "done" /\ rsp[c].err = NoErr) =>
              /\ Len(rsp[c].incl) = Len(req[c].indices)
              /\ \A k \in 1..Len(req[c].indices) :
                    /\ ~ rsp[c].incl[k].leaf.nil
                    /\ rsp[c].incl[k].leaf.index = req[c].indices[k]
        /\ (op[c] \in {"GetLeaf", "GetLeafByRevision"} /\ pc[c] = "done") =>
              /\ fail[c].step # "count"
              /\ rsp[c].err # Err("Internal")
              /\ rsp[c].err = NoErr => Len(rsp[c].incl) = 1

\* Two indices were read in the order Y, X after X alone was written: the
\* stored leaf came back second and the empty leaf of Y first.
C31_Witness ==
    \E c \in Calls :
        /\ op[c] = "GetLeavesByRevision" /\ pc[c] = "done"
        /\ rsp[c].err = NoErr
        /\ req[c].indices = <<IdxY, IdxX>>
        /\ Len(rsp[c].incl) = 2
        /\ rsp[c].incl[1].leaf.index = IdxY /\ rsp[c].incl[1].leaf.value = <<>>
        /\ rsp[c].incl[2].leaf.index = IdxX /\ rsp[c].incl[2].leaf.value # <<>>

\* C32: in getLeavesByRevision each subtask sends at most one error and
\* always finds room in errCh, whose capacity of two is never exceeded; the
\* handler reads the subtasks' results, and returns (closing errCh), only after
\* both subtasks have finished, and a finished subtask changes nothing more.
C32_SubtasksNeverBlockResultsReadAfterJoin ==
    /\ [](\A c \in Calls : pc[c] = "rd_tasks" =>
             /\ Len(tx[c].errCh) <= errChCap
             /\ Len(tx[c].errCh) <= Cardinality(tx[c].joined)
             /\ \A i, j \in 1..Len(tx[c].errCh) :
                   tx[c].errCh[i] = tx[c].errCh[j] => i = j
             /\ \A i \in 1..Len(tx[c].errCh) : tx[c].errCh[i] \in tx[c].joined
             /\ tx[c].joined # {"leaves", "proofs"} =>
                   Len(tx[c].errCh) < errChCap
             /\ "leaves" \notin tx[c].joined => tx[c].got = {}
             /\ "proofs" \notin tx[c].joined => tx[c].proofs = {})
    /\ [][\A c \in Calls : pc[c] = "rd_tasks" =>
             /\ pc'[c] # "rd_tasks" => tx[c].joined = {"leaves", "proofs"}
             /\ pc'[c] = "rd_tasks" =>
                   /\ tx[c].joined \subseteq tx'[c].joined
                   /\ "leaves" \in tx[c].joined =>
                         /\ tx'[c].got = tx[c].got
                         /\ \A i \in 1..Len(tx'[c].errCh) :
                               tx'[c].errCh[i] = "leaves" =>
                                   i <= Len(tx[c].errCh)
                   /\ "proofs" \in tx[c].joined =>
                         /\ tx'[c].proofs = tx[c].proofs
                         /\ \A i \in 1..Len(tx'[c].errCh) :
                               tx'[c].errCh[i] = "proofs" =>
                                   i <= Len(tx[c].errCh)]_vars

\* Both subtasks failed and both errors sit in errCh, filling it, while the
\* handler has not yet returned.
C32_Witness ==
    \E c \in Calls :
        /\ pc[c] = "rd_tasks"
        /\ tx[c].joined = {"leaves", "proofs"}
        /\ Len(tx[c].errCh) = errChCap
        /\ tx[c].errCh = <<"proofs", "leaves">>

\* C33: under fair scheduling calcAllSiblingsParallel returns for every input,
\* the empty one and those with more siblings than the channel holds included:
\* every producer sends all its siblings, the channel never holds more than
\* its capacity, it is closed once, only after the last producer has sent,
\* and stays closed, and the consumer returns only when it is closed and
\* drained.
C33_SiblingsParallelTerminates ==
    /\ [](/\ Len(sibCh) <= ChanCap
          /\ chClosed => \A i \in 1..Len(hkvIn) : sent[i] = BitLen
          /\ sibPc = "returned" =>
                /\ chClosed /\ sibCh = <<>>
                /\ \A i \in 1..Len(hkvIn) : sent[i] = BitLen)
    /\ [][/\ chClosed => chClosed' /\ sent' = sent
          /\ chClosed' # chClosed =>
                /\ ~ chClosed
                /\ \A i \in 1..Len(hkvIn) : sent[i] = BitLen]_vars
    /\ <>(sibPc = "returned")

\* Two keys' siblings, more than the channel holds at once, have all been
\* sent and received, and the function has returned.
C33_Witness ==
    /\ sibPc = "returned"
    /\ hkvIn = <<IdxX, IdxY>>
    /\ Len(hkvIn) * BitLen > ChanCap
    /\ \A i \in 1..Len(hkvIn) : sent[i] = BitLen
    /\ chClosed /\ sibCh = <<>>
    /\ nids # <<>>

====
